---- MODULE Spec2Model ----
(***************************************************************************)
(* Documentation-to-PDF converters: the crawl / filter / clean / render /  *)
(* merge scripts of the repository, modelled script by script.             *)
(*                                                                         *)
(* Text is a sequence of one-character strings, so that lower-casing,      *)
(* prefix tests, substring tests, strip, split and replace are computed    *)
(* the way the Python code computes them.                                  *)
(***************************************************************************)
EXTENDS Integers, Sequences, FiniteSets, TLC

VARIABLES
    \* ---- the crawl scripts (apache, rspamd, mariadb, redis) and the
    \* ---- merge steps of the Debian converters
    script,      \* which script is running
    pc,          \* position of the script's control flow
    visited,     \* visited = set()
    to_visit,    \* to_visit = [START_URL]
    pdf_files,   \* pdf_files = []  (all_pages for redis, pdf_paths for debian12)
    page_count,  \* page_count (apache, rspamd)
    url,         \* the URL of the current loop iteration
    disk,        \* the output directory: file name -> what is stored there
    merged,      \* the merged output file: NoFile, or the appended inputs
    raised,      \* TRUE when an exception escaped main()
    trace,       \* history: the loop iterations that passed the visited check
    site,        \* the link graph served: "any", or page -> links of the page
    \* ---- is_valid_link as a pure function
    href,        \* the parsed link handed to is_valid_link
    cfg,         \* the configuration it runs under
    accepted,    \* its result ("unset" before the call)
    \* ---- fetch_and_cleanup_html as a pure function of the fetched document
    doc,         \* the parsed document
    cleaned,     \* the returned content ("unset" before the call)
    \* ---- bind9 Step C
    b_pc,        \* position in main()
    b_failed,    \* failed_slugs
    b_cache,     \* slug_cache: slug -> articleId or None
    b_tracker,   \* pdf_tracker: articleId -> recorded path or None
    b_files,     \* local files: path -> "absent" | "ok" | "bad"
    b_i,         \* index of the next slug of the Step C loop
    b_merger,    \* merger.pages, as the sequence of appended slugs' files
    b_missing,   \* missing_slugs
    b_merge_failed, \* merge_failed_slugs
    b_final,     \* ALL_MERGED.pdf: NoFile or the written content
    b_write_ok,  \* whether open()/merger.write() of the final file succeeds
    b_summary,   \* the summary message printed at the end ("none" before)
    \* ---- bind9 Steps A and B, the JSON files and successive runs
    b_run,       \* which run of the script this is ("first" | "second")
    b_resp,      \* the result of the network operation being handled
    f_failed,    \* failed_slugs.json as load_json_list reads it
    f_cache,     \* slug_cache.json as load_json_dict reads it
    f_tracker,   \* pdf_tracker.json as load_json_dict reads it
    \* ---- the retry loops (load_page_with_retries, fetch_page, poll_task_status)
    attempt,     \* attempts the running retry loop has made so far
    ret,         \* what the retry loop that finished last returned
    polled       \* poll_task_status: the responses received so far

crawlVars == <<script, pc, visited, to_visit, pdf_files, page_count, url,
               disk, merged, raised, trace, site>>
filterVars == <<href, cfg, accepted>>
cleanVars == <<doc, cleaned>>
bindVars == <<b_pc, b_failed, b_cache, b_tracker, b_files, b_i, b_merger,
              b_missing, b_merge_failed, b_final, b_write_ok, b_summary>>
runVars == <<b_run, b_resp, f_failed, f_cache, f_tracker>>
retryVars == <<attempt, ret, polled>>
vars == <<crawlVars, filterVars, cleanVars, bindVars, runVars, retryVars>>

None == "None"
\* an output file that was not written
NoFile == [written |-> FALSE, pages |-> <<>>]
Written(pages) == [written |-> TRUE, pages |-> pages]

-----------------------------------------------------------------------------
(* Text helpers: Python str operations on sequences of characters.          *)

Uppers == <<"A","B","C","D","E","F","G","H","I","J","K","L","M",
            "N","O","P","Q","R","S","T","U","V","W","X","Y","Z">>
Lowers == <<"a","b","c","d","e","f","g","h","i","j","k","l","m",
            "n","o","p","q","r","s","t","u","v","w","x","y","z">>

IsUpper(c) == \E i \in 1..26 : Uppers[i] = c
IsLetter(c) == \E i \in 1..26 : Uppers[i] = c \/ Lowers[i] = c

lower_char(c) == IF IsUpper(c) THEN Lowers[CHOOSE i \in 1..26 : Uppers[i] = c] ELSE c

\* str.lower()
lower(s) == [i \in 1..Len(s) |-> lower_char(s[i])]

\* str.startswith(p); also re.search/re.match of a literal pattern "^p"
startswith(s, p) == Len(s) >= Len(p) /\ SubSeq(s, 1, Len(p)) = p

\* "kw in s" for a non-empty kw
contains(s, kw) == \E i \in 1..(Len(s) - Len(kw) + 1) : SubSeq(s, i, i + Len(kw) - 1) = kw

RECURSIVE lstrip(_, _)
lstrip(s, ch) == IF s # <<>> /\ Head(s) = ch THEN lstrip(Tail(s), ch) ELSE s

RECURSIVE rstrip(_, _)
rstrip(s, ch) == IF s # <<>> /\ s[Len(s)] = ch THEN rstrip(SubSeq(s, 1, Len(s) - 1), ch) ELSE s

\* str.strip(ch)
strip(s, ch) == rstrip(lstrip(s, ch), ch)

\* str.split(ch): the pieces between the occurrences of ch (never empty list)
RECURSIVE split(_, _)
split(s, ch) ==
    IF \E i \in 1..Len(s) : s[i] = ch
    THEN LET i == CHOOSE k \in 1..Len(s) : s[k] = ch /\ \A j \in 1..(k - 1) : s[j] # ch
         IN  <<SubSeq(s, 1, i - 1)>> \o split(SubSeq(s, i + 1, Len(s)), ch)
    ELSE <<s>>

\* str.replace(a, b) for single characters a, b
replace(s, a, b) == [i \in 1..Len(s) |-> IF s[i] = a THEN b ELSE s[i]]

\* "/".join(segs) with a leading "/" : the path whose segments are segs
RECURSIVE join_path(_)
join_path(segs) == IF segs = <<>> THEN <<>> ELSE <<"/">> \o Head(segs) \o join_path(Tail(segs))

-----------------------------------------------------------------------------
(* is_valid_link of the Apache crawler.                                     *)

DOMAIN_APACHE == <<"h","t","t","p","d",".","a","p","a","c","h","e",".","o","r","g">>

EXCLUDE_KEYWORDS_APACHE ==
    { <<"z","h","-","c","n">>, <<"j","a">>, <<"k","o">>, <<"f","r">>, <<"r","u">>,
      <<"p","t","-","b","r">>, <<"f","a","q">>, <<"g","l","o","s","s","a","r","y">>,
      <<"l","i","c","e","n","s","e">>, <<"s","i","t","e","m","a","p">> }

DOC_PATH_PREFIX == <<"/","d","o","c","s","/","c","u","r","r","e","n","t","/">>

\* DOC_PATH_REGEX = re.compile(r"^/docs/current/", re.IGNORECASE); .search(path)
DOC_PATH_REGEX(path) == startswith(lower(path), DOC_PATH_PREFIX)

\* LOCALE_CODE_REGEX = re.compile(r"^[a-z]{2}(\-[a-z]{2})?$", re.IGNORECASE); .match(seg)
LOCALE_CODE_REGEX(seg) ==
    \/ Len(seg) = 2 /\ IsLetter(seg[1]) /\ IsLetter(seg[2])
    \/ Len(seg) = 5 /\ IsLetter(seg[1]) /\ IsLetter(seg[2]) /\ seg[3] = "-"
                    /\ IsLetter(seg[4]) /\ IsLetter(seg[5])

\* "not href": the link text is empty, i.e. every component urlparse gives is empty
href_empty(h) == h.netloc = <<>> /\ h.path = <<>> /\ h.rest = <<>>

\* is_valid_link(href), with the module globals DOMAIN and EXCLUDE_KEYWORDS as
\* parameters; h is urlparse(href)
is_valid_link_nolocale(h, domain, keywords) ==
    /\ ~href_empty(h)
    /\ ~(h.netloc # <<>> /\ lower(h.netloc) # domain)
    /\ DOC_PATH_REGEX(h.path)
    /\ \A kw \in keywords : ~contains(lower(h.path), kw)
is_valid_link_cfg(h, domain, keywords) ==
    /\ ~href_empty(h)
    /\ ~(h.netloc # <<>> /\ lower(h.netloc) # domain)
    /\ DOC_PATH_REGEX(h.path)
    /\ \A kw \in keywords : ~contains(lower(h.path), kw)
    /\ LET splitted == split(strip(h.path, "/"), "/")
       IN  ~(Len(splitted) >= 3 /\ LOCALE_CODE_REGEX(splitted[3]))

-----------------------------------------------------------------------------
(* The other link filters.                                                  *)

DOMAIN_RSPAMD == <<"r","s","p","a","m","d",".","c","o","m">>
DOMAIN_MARIADB == <<"m","a","r","i","a","d","b",".","c","o","m">>

EXCLUDE_KEYWORDS_MARIADB ==
    { <<"p","r","i","c","i","n","g">>, <<"s","e","r","v","i","c","e","s">>,
      <<"c","o","n","t","a","c","t">>, <<"a","b","o","u","t","-","u","s">>,
      <<"d","o","w","n","l","o","a","d">>, <<"m","a","x","s","c","a","l","e">>,
      <<"e","n","t","e","r","p","r","i","s","e">>, <<"x","p","a","n","d">>,
      <<"s","k","y","s","q","l">>, <<"c","o","l","u","m","n","s","t","o","r","e">> }

RSPAMD_PREFIX == <<"/","d","o","c","/">>
MARIADB_PREFIX == <<"/","k","b","/","e","n","/">>
REDIS_PREFIX == <<"/","d","o","c","s","/","l","a","t","e","s","t","/","o","p","e","r","a","t","e","/",
                  "o","s","s","_","a","n","d","_","s","t","a","c","k">>

IsDigit(c) == c \in {"0","1","2","3","4","5","6","7","8","9"}

\* rspamd: is_valid_link (EXCLUDE_KEYWORDS is empty, so should_exclude is FALSE)
rspamd_is_valid_link(h) ==
    /\ ~href_empty(h)
    /\ ~(h.netloc # <<>> /\ lower(h.netloc) # DOMAIN_RSPAMD)
    /\ startswith(lower(h.path), RSPAMD_PREFIX)

\* mariadb: DOC_PATH_REGEX = ^/kb/en/[a-z0-9\-\_]+ (IGNORECASE)
mariadb_DOC_PATH_REGEX(path) ==
    /\ startswith(lower(path), MARIADB_PREFIX)
    /\ Len(path) > Len(MARIADB_PREFIX)
    /\ LET c == path[Len(MARIADB_PREFIX) + 1]
       IN  IsLetter(c) \/ IsDigit(c) \/ c = "-" \/ c = "_"

\* mariadb: should_exclude_by_filename
should_exclude_by_filename(filename) ==
    \E kw \in EXCLUDE_KEYWORDS_MARIADB : contains(lower(filename), kw)

\* mariadb: is_valid_link (the host is compared as written, not lower-cased)
mariadb_is_valid_link(h) ==
    /\ ~href_empty(h)
    /\ ~(h.netloc # <<>> /\ h.netloc # DOMAIN_MARIADB)
    /\ mariadb_DOC_PATH_REGEX(h.path)
    /\ \A kw \in EXCLUDE_KEYWORDS_MARIADB : ~contains(lower(h.path), kw)

-----------------------------------------------------------------------------
(* The pages of the modelled sites.  A URL is named by its text; urlparse   *)
(* gives its components as character sequences.  Links found on a page are *)
(* given after urljoin(url, href), i.e. in absolute form (for redis: as the *)
(* raw href, which extract_links prefixes with BASE_URL).                   *)

START_URL_APACHE == "https://httpd.apache.org/docs/current/"
START_URL_RSPAMD == "https://rspamd.com/doc/"
START_URL_MARIADB == "https://mariadb.com/kb/en/documentation/"
BASE_URL == "https://redis.io"
SECTION_HOME == "https://redis.io/docs/latest/operate/oss_and_stack/"

ApacheUrls == { START_URL_APACHE,
                "https://httpd.apache.org/docs/current/a/b",
                "https://httpd.apache.org/docs/current/a-b",
                "https://httpd.apache.org/docs/current/c",
                "https://httpd.apache.org/docs/current/faq.html" }
RspamdUrls == { START_URL_RSPAMD,
                "https://rspamd.com/doc/a.html",
                "https://other.org/doc/x" }
MariadbUrls == { START_URL_MARIADB,
                 "https://mariadb.com/kb/en/a/",
                 "https://mariadb.com/kb/en/b/",
                 "https://mariadb.com/kb/en/pricing/" }
RedisHrefs == { "/docs/latest/operate/oss_and_stack/",
                "/docs/latest/operate/oss_and_stack/a/",
                "/docs/latest/develop/" }

P(netloc, path) == [netloc |-> netloc, path |-> path, rest |-> <<>>]

urlparse(u) ==
    CASE u = START_URL_APACHE -> P(DOMAIN_APACHE, DOC_PATH_PREFIX)
      [] u = "https://httpd.apache.org/docs/current/a/b" -> P(DOMAIN_APACHE, DOC_PATH_PREFIX \o <<"a","/","b">>)
      [] u = "https://httpd.apache.org/docs/current/a-b" -> P(DOMAIN_APACHE, DOC_PATH_PREFIX \o <<"a","-","b">>)
      [] u = "https://httpd.apache.org/docs/current/c" -> P(DOMAIN_APACHE, DOC_PATH_PREFIX \o <<"c">>)
      [] u = "https://httpd.apache.org/docs/current/faq.html" ->
             P(DOMAIN_APACHE, DOC_PATH_PREFIX \o <<"f","a","q",".","h","t","m","l">>)
      [] u = START_URL_RSPAMD -> P(DOMAIN_RSPAMD, RSPAMD_PREFIX)
      [] u = "https://rspamd.com/doc/a.html" -> P(DOMAIN_RSPAMD, RSPAMD_PREFIX \o <<"a",".","h","t","m","l">>)
      [] u = "https://other.org/doc/x" -> P(<<"o","t","h","e","r",".","o","r","g">>, RSPAMD_PREFIX \o <<"x">>)
      [] u = START_URL_MARIADB ->
             P(DOMAIN_MARIADB, MARIADB_PREFIX \o <<"d","o","c","u","m","e","n","t","a","t","i","o","n","/">>)
      [] u = "https://mariadb.com/kb/en/a/" -> P(DOMAIN_MARIADB, MARIADB_PREFIX \o <<"a","/">>)
      [] u = "https://mariadb.com/kb/en/b/" -> P(DOMAIN_MARIADB, MARIADB_PREFIX \o <<"b","/">>)
      [] u = "https://mariadb.com/kb/en/pricing/" ->
             P(DOMAIN_MARIADB, MARIADB_PREFIX \o <<"p","r","i","c","i","n","g","/">>)
      [] u = "/docs/latest/operate/oss_and_stack/" -> P(<<>>, REDIS_PREFIX \o <<"/">>)
      [] u = "/docs/latest/operate/oss_and_stack/a/" -> P(<<>>, REDIS_PREFIX \o <<"/","a","/">>)
      [] u = "/docs/latest/develop/" ->
             P(<<>>, <<"/","d","o","c","s","/","l","a","t","e","s","t","/","d","e","v","e","l","o","p","/">>)

CrawlScripts == {"apache", "rspamd", "mariadb"}

Urls(s) == CASE s = "apache" -> ApacheUrls
             [] s = "rspamd" -> RspamdUrls
             [] s = "mariadb" -> MariadbUrls
             [] s = "redis" -> RedisHrefs

START_URL(s) == CASE s = "apache" -> START_URL_APACHE
                  [] s = "rspamd" -> START_URL_RSPAMD
                  [] s = "mariadb" -> START_URL_MARIADB
                  [] s = "redis" -> SECTION_HOME

\* is_valid_link(link_url) of the running script
is_valid_link(s, u) ==
    CASE s = "apache" -> is_valid_link_cfg(urlparse(u), DOMAIN_APACHE, EXCLUDE_KEYWORDS_APACHE)
      [] s = "rspamd" -> rspamd_is_valid_link(urlparse(u))
      [] s = "mariadb" -> mariadb_is_valid_link(urlparse(u))

\* the links of each site that its script's is_valid_link accepts
ValidApache == { u \in ApacheUrls : is_valid_link("apache", u) }
ValidRspamd == { u \in RspamdUrls : is_valid_link("rspamd", u) }
ValidMariadb == { u \in MariadbUrls : is_valid_link("mariadb", u) }

ValidLinks(s) == CASE s = "apache" -> ValidApache
                   [] s = "rspamd" -> ValidRspamd
                   [] s = "mariadb" -> ValidMariadb

\* path_part: parsed.path.strip("/"), "index" when empty, "/" replaced by "-"
path_part(u) ==
    LET stripped == strip(urlparse(u).path, "/")
    IN  replace(IF stripped = <<>> THEN <<"i","n","d","e","x">> ELSE stripped, "/", "-")

\* pdf_filename = path_part.replace("/", "-") + ".pdf"  (inside OUTPUT_DIR)
pdf_filename(u) == path_part(u) \o <<".","p","d","f">>

PdfName == [u \in ApacheUrls \cup RspamdUrls \cup MariadbUrls |-> pdf_filename(u)]

\* str.replace(sub, ""): every occurrence of sub is removed, left to right
RECURSIVE remove(_, _)
remove(s, sub) ==
    IF Len(s) < Len(sub) THEN s
    ELSE IF SubSeq(s, 1, Len(sub)) = sub THEN remove(SubSeq(s, Len(sub) + 1, Len(s)), sub)
    ELSE <<Head(s)>> \o remove(Tail(s), sub)

\* rspamd rewrite_links: the href written for a link that is_valid_link accepts,
\* path_part.replace("/", "-").replace(".html", "") + ".pdf"
rewrite_links(u) == remove(path_part(u), <<".","h","t","m","l">>) \o <<".","p","d","f">>

-----------------------------------------------------------------------------
(* The crawl loop of apache_httpd_doc_crawler.py, generate_rspamd_docs.py   *)
(* and mariadb_pdf_filter_flatten.py.                                       *)

CRAWL_LIMIT == 3      \* the safety cutoff (200 in the scripts), scaled down
MaxLinks == 2         \* links on one page
MaxParts == 2         \* linked parts / topic links of a Debian guide
CREATE_SINGLE_PDF == TRUE
MERGE_PDFS == TRUE

LinkSeqs(S) == UNION { [1..n -> S] : n \in 0..MaxLinks }

InSeq(x, q) == \E i \in 1..Len(q) : q[i] = x

\* the pages a crawl can reach: the start page and every accepted link
Pages(s) ==
    CASE s \in CrawlScripts -> ValidLinks(s) \cup {START_URL(s)}
      [] OTHER -> {}

Files(s) ==
    CASE s \in CrawlScripts -> { PdfName[u] : u \in Pages(s) }
      [] s \in {"debian11", "debian12", "debian12v2"} -> 0..(MaxParts + 1)
      [] OTHER -> {}

\* a file PyPDF2 can open and parse
Readable(v) == v \notin {"absent", "bad"}

Last(q) == q[Len(q)]
Front(q) == SubSeq(q, 1, Len(q) - 1)

SetLast(t, field, value) == [t EXCEPT ![Len(t)] = [@ EXCEPT ![field] = value]]

otherVars == <<filterVars, cleanVars, bindVars, runVars, retryVars>>

AnySite == [mode |-> "any", links |-> <<>>]

\* a site of two pages that link to each other (each page may carry the
\* link several times, and may link to itself)
CycleOther(s) ==
    CASE s = "apache" -> "https://httpd.apache.org/docs/current/a/b"
      [] s = "rspamd" -> "https://rspamd.com/doc/a.html"
      [] s = "mariadb" -> "https://mariadb.com/kb/en/a/"
      [] s = "redis" -> "https://redis.io/docs/latest/operate/oss_and_stack/a/"

LinkTo(s, page) ==
    IF s # "redis" THEN page
    ELSE IF page = SECTION_HOME THEN "/docs/latest/operate/oss_and_stack/"
    ELSE "/docs/latest/operate/oss_and_stack/a/"

CycleSites(s) ==
    LET X == START_URL(s)
        Y == CycleOther(s)
        graphs == { f \in [{X, Y} -> LinkSeqs({LinkTo(s, X), LinkTo(s, Y)})] :
                      InSeq(LinkTo(s, Y), f[X]) /\ InSeq(LinkTo(s, X), f[Y]) }
    IN  { [mode |-> "cycle", links |-> f] : f \in graphs }

\* a site of four accepted pages in a ring, each page linking to the start
\* page and to the next page: more pages than the cutoff allows
RingOrder == << START_URL_APACHE,
                "https://httpd.apache.org/docs/current/a/b",
                "https://httpd.apache.org/docs/current/a-b",
                "https://httpd.apache.org/docs/current/c" >>

RingSites(s) ==
    IF s = "apache"
    THEN { [mode |-> "ring",
            links |-> [u \in ApacheUrls |->
                         IF \E i \in 1..Len(RingOrder) : RingOrder[i] = u
                         THEN LET i == CHOOSE k \in 1..Len(RingOrder) : RingOrder[k] = u
                              IN  <<START_URL_APACHE, RingOrder[(i % Len(RingOrder)) + 1]>>
                         ELSE <<>>]] }
    ELSE {}

Sites(s) == CycleSites(s) \cup RingSites(s)

\* the links a page may carry when the site is left open
FreeUrls(s) == IF s = "apache" THEN ApacheUrls \ {"https://httpd.apache.org/docs/current/a-b"}
               ELSE Urls(s)

\* what a successful GET of page u can return
PageLinks(s, st, u) == IF st.mode = "any" THEN LinkSeqs(FreeUrls(s)) ELSE {st.links[u]}

InitCrawl ==
    /\ script \in CrawlScripts
    /\ pc = "loop"
    /\ visited = {}
    /\ to_visit = <<START_URL(script)>>
    /\ pdf_files = <<>>
    /\ page_count = 0
    /\ url = None
    /\ disk \in [Files(script) -> {"absent", "stale"}]
    /\ merged = NoFile
    /\ raised = FALSE
    /\ trace = <<>>
    /\ site \in {AnySite} \cup Sites(script)

\* while to_visit and len(visited) < CRAWL_LIMIT
loop_condition_nolimit(tv, vis) == tv # <<>>
loop_condition(tv, vis) == tv # <<>> /\ Cardinality(vis) < CRAWL_LIMIT

\* the while condition is false: fall through to the summary
LoopExit ==
    /\ script \in CrawlScripts /\ pc = "loop"
    /\ ~loop_condition(to_visit, visited)
    /\ pc' = "summary"
    /\ UNCHANGED <<script, visited, to_visit, pdf_files, page_count, url, disk,
                   merged, raised, trace, site, otherVars>>

\* url = to_visit.pop(); if url in visited: continue
PopVisited ==
    /\ script \in CrawlScripts /\ pc = "loop"
    /\ loop_condition(to_visit, visited)
    /\ Last(to_visit) \in visited
    /\ url' = Last(to_visit)
    /\ to_visit' = Front(to_visit)
    /\ UNCHANGED <<script, pc, visited, pdf_files, page_count, disk,
                   merged, raised, trace, site, otherVars>>

\* visited.add(url)
mark_visited_skip(vis, u) == vis
mark_visited(vis, u) == vis \cup {u}

\* url = to_visit.pop(); visited.add(url)
PopNew ==
    /\ script \in CrawlScripts /\ pc = "loop"
    /\ loop_condition(to_visit, visited)
    /\ Last(to_visit) \notin visited
    /\ url' = Last(to_visit)
    /\ to_visit' = Front(to_visit)
    /\ visited' = mark_visited(visited, Last(to_visit))
    /\ trace' = Append(trace, [url |-> Last(to_visit), fetch |-> "pending", render |-> "pending"])
    /\ pc' = "fetch"
    /\ UNCHANGED <<script, pdf_files, page_count, disk, merged, raised, site, otherVars>>

\* requests.get(url) / raise_for_status() raises: print and continue
FetchFail ==
    /\ script \in CrawlScripts /\ pc = "fetch"
    /\ trace' = SetLast(trace, "fetch", "fail")
    /\ pc' = "loop"
    /\ UNCHANGED <<script, visited, to_visit, pdf_files, page_count, url, disk,
                   merged, raised, site, otherVars>>

\* for a_tag in soup.find_all("a", href=True):
\*     if link_url not in visited and is_valid_link(link_url): to_visit.append(link_url)
new_links_any(s, links, vis) == links
new_links(s, links, vis) ==
    LET ok(l) == l \notin vis /\ l \in ValidLinks(s)
    IN  SelectSeq(links, ok)

\* the GET succeeds: the page's links are appended to the worklist
FetchOk ==
    /\ script \in CrawlScripts /\ pc = "fetch"
    /\ \E links \in PageLinks(script, site, url) :
          to_visit' = to_visit \o new_links(script, links, visited)
    /\ trace' = SetLast(trace, "fetch", "ok")
    /\ pc' = "convert"
    /\ UNCHANGED <<script, visited, pdf_files, page_count, url, disk,
                   merged, raised, site, otherVars>>

\* fetch_and_cleanup_html(url) raises (its own GET fails): the except of main
ConvertFetchFail ==
    /\ script \in CrawlScripts /\ pc = "convert"
    /\ trace' = SetLast(trace, "render", "none")
    /\ pc' = "loop"
    /\ UNCHANGED <<script, visited, to_visit, pdf_files, page_count, url, disk,
                   merged, raised, site, otherVars>>

\* pdfkit.from_string: on success the file is written (PyPDF2 may or may not
\* be able to parse what wkhtmltopdf wrote); on failure the file is left as it was
pdfkit_from_string(d, path, u, outcome) ==
    CASE outcome = "ok" -> [d EXCEPT ![path] = u]
      [] outcome = "ok_bad" -> [d EXCEPT ![path] = "bad"]
      [] outcome = "fail" -> d

RenderOutcomes == {"ok", "ok_bad", "fail"}

\* apache, rspamd: html_to_pdf catches the pdfkit error itself, so main appends
\* the path and counts the page whatever the outcome
record_pdf(files, path, outcome) == Append(files, path)

ApacheConvert ==
    /\ script \in {"apache", "rspamd"} /\ pc = "convert"
    /\ \E outcome \in RenderOutcomes :
          /\ disk' = pdfkit_from_string(disk, PdfName[url], url, outcome)
          /\ pdf_files' = record_pdf(pdf_files, PdfName[url], outcome)
          /\ trace' = SetLast(trace, "render", IF outcome = "fail" THEN "fail" ELSE "ok")
    /\ page_count' = page_count + 1
    /\ pc' = "loop"
    /\ UNCHANGED <<script, visited, to_visit, url, merged, raised, site, otherVars>>

\* mariadb: html_to_pdf lets the pdfkit error through to the except of main,
\* so a failed page is not appended; an excluded file name skips the page
MariadbConvert ==
    /\ script = "mariadb" /\ pc = "convert"
    /\ IF should_exclude_by_filename(path_part(url))
       THEN /\ trace' = SetLast(trace, "render", "none")
            /\ UNCHANGED <<disk, pdf_files>>
       ELSE \E outcome \in RenderOutcomes :
              /\ disk' = pdfkit_from_string(disk, PdfName[url], url, outcome)
              /\ pdf_files' = IF outcome = "fail" THEN pdf_files
                              ELSE Append(pdf_files, PdfName[url])
              /\ trace' = SetLast(trace, "render", IF outcome = "fail" THEN "fail" ELSE "ok")
    /\ pc' = "loop"
    /\ UNCHANGED <<script, visited, to_visit, page_count, url, merged, raised,
                   site, otherVars>>

\* after the loop: the summary line, then "if CREATE_SINGLE_PDF and pdf_files"
Summary ==
    /\ script \in CrawlScripts /\ pc = "summary"
    /\ pc' = IF CREATE_SINGLE_PDF /\ pdf_files # <<>> THEN "merge" ELSE "done"
    /\ UNCHANGED <<script, visited, to_visit, pdf_files, page_count, url, disk,
                   merged, raised, trace, site, otherVars>>

\* what merger.append adds for one input
Entry(d, f) == [file |-> f, content |-> d[f]]

\* apache, rspamd: merge_pdfs appends every input it can read, skips the
\* others, and always writes the output
merge_pdfs(pdf_list, d) ==
    LET RECURSIVE go(_)
        go(l) == IF l = <<>> THEN <<>>
                 ELSE IF Readable(d[Head(l)]) THEN <<Entry(d, Head(l))>> \o go(Tail(l))
                 ELSE go(Tail(l))
    IN  Written(go(pdf_list))

ApacheMerge ==
    /\ script \in {"apache", "rspamd"} /\ pc = "merge"
    /\ merged' = merge_pdfs(pdf_files, disk)
    /\ pc' = "done"
    /\ UNCHANGED <<script, visited, to_visit, pdf_files, page_count, url, disk,
                   raised, trace, site, otherVars>>

\* a merge loop with no try around the append: the first unreadable input
\* raises out of main and nothing is written
merge_unguarded(pdf_list, d) ==
    IF \A i \in 1..Len(pdf_list) : Readable(d[pdf_list[i]])
    THEN [raised |-> FALSE, out |-> Written([i \in 1..Len(pdf_list) |-> Entry(d, pdf_list[i])])]
    ELSE [raised |-> TRUE, out |-> NoFile]

\* mariadb: merge_pdfs(pdf_files, merged_path)
MariadbMerge ==
    /\ script = "mariadb" /\ pc = "merge"
    /\ LET r == merge_unguarded(pdf_files, disk)
       IN  /\ merged' = r.out
           /\ raised' = r.raised
           /\ pc' = IF r.raised THEN "aborted_merge" ELSE "done"
    /\ UNCHANGED <<script, visited, to_visit, pdf_files, page_count, url, disk,
                   trace, site, otherVars>>

-----------------------------------------------------------------------------
(* crawl_redis_docs of generate_redis_docs.py: no cutoff, and a failed GET  *)
(* is not caught.                                                           *)

\* VALID_URL_PATTERN = re.compile(r"^/docs/latest/operate/oss_and_stack"); .match(href)
VALID_URL_PATTERN(h) == h.netloc = <<>> /\ startswith(h.path, REDIS_PREFIX)

ValidRedis == { h \in RedisHrefs : VALID_URL_PATTERN(urlparse(h)) }

\* extract_links(soup): abs_url = BASE_URL + href for every matching href
extract_links(hrefs) ==
    LET RECURSIVE go(_)
        go(l) == IF l = <<>> THEN <<>>
                 ELSE IF Head(l) \in ValidRedis THEN <<BASE_URL \o Head(l)>> \o go(Tail(l))
                 ELSE go(Tail(l))
    IN  go(hrefs)

RedisPages == { BASE_URL \o h : h \in ValidRedis } \cup {SECTION_HOME}

InitRedis ==
    /\ script = "redis"
    /\ pc = "r_loop"
    /\ visited = {}
    /\ to_visit = <<SECTION_HOME>>
    /\ pdf_files = <<>>
    /\ page_count = 0
    /\ url = None
    /\ disk = <<>>
    /\ merged = NoFile
    /\ raised = FALSE
    /\ trace = <<>>
    /\ site \in {AnySite} \cup Sites("redis")

\* while to_visit: is false; return all_pages
R_LoopExit ==
    /\ script = "redis" /\ pc = "r_loop"
    /\ to_visit = <<>>
    /\ pc' = "crawled"
    /\ UNCHANGED <<script, visited, to_visit, pdf_files, page_count, url, disk,
                   merged, raised, trace, site, otherVars>>

\* url = to_visit.pop(); if url in visited: continue
R_PopVisited ==
    /\ script = "redis" /\ pc = "r_loop"
    /\ to_visit # <<>>
    /\ Last(to_visit) \in visited
    /\ url' = Last(to_visit)
    /\ to_visit' = Front(to_visit)
    /\ UNCHANGED <<script, pc, visited, pdf_files, page_count, disk,
                   merged, raised, trace, site, otherVars>>

\* url = to_visit.pop(); visited.add(url)
R_PopNew ==
    /\ script = "redis" /\ pc = "r_loop"
    /\ to_visit # <<>>
    /\ Last(to_visit) \notin visited
    /\ url' = Last(to_visit)
    /\ to_visit' = Front(to_visit)
    /\ visited' = visited \cup {Last(to_visit)}
    /\ trace' = Append(trace, [url |-> Last(to_visit), fetch |-> "pending", render |-> "none"])
    /\ pc' = "r_fetch"
    /\ UNCHANGED <<script, pdf_files, page_count, disk, merged, raised, site, otherVars>>

\* get_soup(url) raises: nothing catches it, the script ends with a traceback
R_FetchRaise ==
    /\ script = "redis" /\ pc = "r_fetch"
    /\ trace' = SetLast(trace, "fetch", "fail")
    /\ raised' = TRUE
    /\ pc' = "aborted_fetch"
    /\ UNCHANGED <<script, visited, to_visit, pdf_files, page_count, url, disk,
                   merged, site, otherVars>>

\* for link in sub_links: if link not in visited: to_visit.append(link)
redis_new_links(hrefs, vis) ==
    LET ok(l) == l \notin vis
    IN  SelectSeq(extract_links(hrefs), ok)

\* get_soup(url) succeeds: all_pages.append(url), sub-links are queued
R_FetchOk ==
    /\ script = "redis" /\ pc = "r_fetch"
    /\ \E hrefs \in PageLinks("redis", site, url) :
          to_visit' = to_visit \o redis_new_links(hrefs, visited)
    /\ pdf_files' = Append(pdf_files, url)
    /\ trace' = SetLast(trace, "fetch", "ok")
    /\ pc' = "r_loop"
    /\ UNCHANGED <<script, visited, page_count, url, disk, merged, raised, site, otherVars>>

-----------------------------------------------------------------------------
(* The Debian 11 and Debian 12 (v1) mail-guide converters: one PDF per part *)
(* (files are named by the part number), then the merge loop.               *)

PdfContents == {"good", "bad"}   \* page.pdf wrote a file PyPDF2 can / cannot parse

\* How many times to retry if a page times out (debian12: 4, its v2: 2)
MAX_RETRIES(s) == IF s = "debian12" THEN 4 ELSE 2

\* the value a retry loop returned for one link, and the attempts it made
Fetched(ok, n) == [kind |-> "fetched", data |-> ok, attempts |-> n]

\* one link of the for loop, as recorded in the history
Visit(link, ok) ==
    [url |-> link, fetch |-> IF ok THEN "ok" ELSE "timeout", render |-> "none"]

InitDebian ==
    /\ script \in {"debian11", "debian12", "debian12v2"}
    /\ pc = "d_main"
    /\ visited = {}
    /\ to_visit = <<>>
    /\ pdf_files = <<>>
    /\ page_count = 0
    /\ url = None
    /\ disk = [f \in Files(script) |-> "absent"]
    /\ merged = NoFile
    /\ raised = FALSE
    /\ trace = <<>>
    /\ site = AnySite

\* debian11: page.goto(MAIN_URL) raises; nothing catches it
D11_MainRaise ==
    /\ script = "debian11" /\ pc = "d_main"
    /\ raised' = TRUE
    /\ pc' = "aborted_nav"
    /\ UNCHANGED <<script, visited, to_visit, pdf_files, page_count, url, disk,
                   merged, trace, site, otherVars>>

\* debian11: Part 1 is saved, the links of Parts 2.. are gathered
D11_MainOk ==
    /\ script = "debian11" /\ pc = "d_main"
    /\ \E n \in 0..MaxParts, c \in PdfContents :
          /\ disk' = [disk EXCEPT ![1] = c]
          /\ to_visit' = [i \in 1..n |-> i + 1]
    /\ pdf_files' = <<1>>
    /\ page_count' = 2
    /\ pc' = "d_parts"
    /\ UNCHANGED <<script, visited, url, merged, raised, trace, site, otherVars>>

\* debian11: new_page.goto(href) raises inside the for loop; nothing catches it
D11_PartRaise ==
    /\ script = "debian11" /\ pc = "d_parts" /\ to_visit # <<>>
    /\ raised' = TRUE
    /\ pc' = "aborted_nav"
    /\ UNCHANGED <<script, visited, to_visit, pdf_files, page_count, url, disk,
                   merged, trace, site, otherVars>>

\* debian11: the part is loaded, saved and appended to pdf_files
D11_PartOk ==
    /\ script = "debian11" /\ pc = "d_parts" /\ to_visit # <<>>
    /\ \E c \in PdfContents : disk' = [disk EXCEPT ![page_count] = c]
    /\ pdf_files' = Append(pdf_files, page_count)
    /\ page_count' = page_count + 1
    /\ to_visit' = Tail(to_visit)
    /\ UNCHANGED <<script, pc, visited, url, merged, raised, trace, site, otherVars>>

\* debian12: the main page loads or times out (caught); the index PDF is saved
\* and the topic links are gathered either way
D12_Main ==
    /\ script = "debian12" /\ pc = "d_main"
    /\ \E n \in 0..MaxParts, c \in PdfContents :
          /\ disk' = [disk EXCEPT ![0] = c]
          /\ to_visit' = [i \in 1..n |-> i]
    /\ pdf_files' = <<0>>
    /\ page_count' = 1
    /\ pc' = "d_parts"
    /\ UNCHANGED <<script, visited, url, merged, raised, trace, site, otherVars>>

\* if attempt < MAX_RETRIES: print("Retrying ...")   (the v2 tests the
\* opposite, attempt >= MAX_RETRIES, to return False)
retries(s, a) == a < MAX_RETRIES(s)

\* debian12: success = load_page_with_retries(...) is not looked at, the PDF
\* is written whatever it is
writes_pdf_if_loaded(success) == success
writes_pdf(success) == TRUE

\* debian12 v2: if not fetch_page(subpage, url): subpage.close(); continue
skips_never(success) == FALSE
skips(success) == ~success

\* debian12, debian12 v2: page.goto times out on an attempt that is not the
\* last one; the except clause prints and the for loop tries again
D12_GotoTimeout ==
    /\ script \in {"debian12", "debian12v2"} /\ pc = "d_parts" /\ to_visit # <<>>
    /\ retries(script, attempt + 1)
    /\ attempt' = attempt + 1
    /\ UNCHANGED <<crawlVars, filterVars, cleanVars, bindVars, runVars, ret, polled>>

\* the retry loop returns: True when the navigation of this attempt completes,
\* False when this attempt is the last one and times out too
LoopReturns(success) ==
    /\ pc = "d_parts" /\ to_visit # <<>>
    /\ success \/ ~retries(script, attempt + 1)
    /\ ret' = Fetched(success, attempt + 1)
    /\ attempt' = 0
    /\ trace' = Append(trace, Visit(Head(to_visit), success))
    /\ to_visit' = Tail(to_visit)
    /\ UNCHANGED <<script, pc, visited, url, merged, raised, site,
                   filterVars, cleanVars, bindVars, runVars, polled>>

\* debian12: load_page_with_retries returns True or False; the PDF is written
\* and appended to pdf_paths in both cases
D12_Part ==
    /\ script = "debian12"
    /\ \E success \in BOOLEAN :
          /\ LoopReturns(success)
          /\ IF writes_pdf(success)
             THEN /\ \E c \in PdfContents : disk' = [disk EXCEPT ![page_count] = c]
                  /\ pdf_files' = Append(pdf_files, page_count)
                  /\ page_count' = page_count + 1
             ELSE UNCHANGED <<disk, pdf_files, page_count>>

\* debian12 v2: except PlaywrightTimeout: print("Main page timed out.
\* Exiting early."); return
exits_early_never(timed_out) == FALSE
exits_early(timed_out) == timed_out

\* debian12 v2: MAIN_URL in the history of navigations
MainPage == 0

\* debian12 v2: the start page times out and main returns, or it loads, the
\* links of the left navigation are gathered and 01-Debian12_index.pdf is saved
V2_Main ==
    /\ script = "debian12v2" /\ pc = "d_main"
    /\ \E timed_out \in BOOLEAN :
          /\ trace' = Append(trace, Visit(MainPage, ~timed_out))
          /\ IF exits_early(timed_out)
             THEN /\ pc' = "exited_early"
                  /\ UNCHANGED <<disk, to_visit, pdf_files, page_count>>
             ELSE /\ \E n \in 0..MaxParts, c \in PdfContents :
                        /\ disk' = [disk EXCEPT ![1] = c]
                        /\ to_visit' = [i \in 1..n |-> i]
                  /\ pdf_files' = <<1>>
                  /\ page_count' = 2
                  /\ pc' = "d_parts"
    /\ UNCHANGED <<script, visited, url, merged, raised, site, otherVars>>

\* debian12 v2: fetch_page returns; on False the link is skipped, on True the
\* PDF is saved under the name made from link_counter and appended to all_pdfs
V2_Part ==
    /\ script = "debian12v2"
    /\ \E success \in BOOLEAN :
          /\ LoopReturns(success)
          /\ IF skips(success)
             THEN UNCHANGED <<disk, pdf_files, page_count>>
             ELSE /\ \E c \in PdfContents : disk' = [disk EXCEPT ![page_count] = c]
                  /\ pdf_files' = Append(pdf_files, page_count)
                  /\ page_count' = page_count + 1

\* the for loop over the links is finished; browser.close()
D_PartsDone ==
    /\ script \in {"debian11", "debian12", "debian12v2"} /\ pc = "d_parts" /\ to_visit = <<>>
    /\ pc' = IF MERGE_PDFS /\ (script = "debian11" \/ pdf_files # <<>>) THEN "merge" ELSE "done"
    /\ UNCHANGED <<script, visited, to_visit, pdf_files, page_count, url, disk,
                   merged, raised, trace, site, otherVars>>

\* debian11 / debian12: for pdf_file in pdf_files: open, PdfReader, add_page;
\* then the merged file is written
D_Merge ==
    /\ script \in {"debian11", "debian12"} /\ pc = "merge"
    /\ LET r == merge_unguarded(pdf_files, disk)
       IN  /\ merged' = r.out
           /\ raised' = r.raised
           /\ pc' = IF r.raised THEN "aborted_merge" ELSE "done"
    /\ UNCHANGED <<script, visited, to_visit, pdf_files, page_count, url, disk,
                   trace, site, otherVars>>

-----------------------------------------------------------------------------
(* main of nginx_pdf.py: one PDF per URL of URLS_IN_ORDER (MaxParts URLs,   *)
(* files named by the position i kept in page_count), then the merge.       *)

InitNginx ==
    /\ script = "nginx"
    /\ pc = "n_loop"
    /\ visited = {}
    /\ to_visit = <<>>
    /\ pdf_files = <<>>
    /\ page_count = 1
    /\ url = None
    /\ disk \in [1..MaxParts -> {"absent", "stale", "bad"}]
    /\ merged = NoFile
    /\ raised = FALSE
    /\ trace = <<>>
    /\ site = AnySite

\* os.path.isfile(out_path)
isfile_never(d, p) == FALSE
isfile(d, p) == d[p] # "absent"

\* if os.path.isfile(out_path): downloaded_pdfs.append(out_path); continue
N_AlreadyExists ==
    /\ script = "nginx" /\ pc = "n_loop" /\ page_count <= MaxParts
    /\ isfile(disk, page_count)
    /\ pdf_files' = Append(pdf_files, page_count)
    /\ page_count' = page_count + 1
    /\ UNCHANGED <<script, pc, visited, to_visit, url, disk, merged, raised, trace,
                   site, otherVars>>

\* pdfkit.from_url succeeds: downloaded_pdfs.append(out_path)
N_FromUrlOk ==
    /\ script = "nginx" /\ pc = "n_loop" /\ page_count <= MaxParts
    /\ ~isfile(disk, page_count)
    /\ \E c \in PdfContents : disk' = [disk EXCEPT ![page_count] = c]
    /\ pdf_files' = Append(pdf_files, page_count)
    /\ page_count' = page_count + 1
    /\ UNCHANGED <<script, pc, visited, to_visit, url, merged, raised, trace,
                   site, otherVars>>

\* pdfkit.from_url raises (wkhtmltopdf may have left a broken file): fallback
N_FromUrlFails ==
    /\ script = "nginx" /\ pc = "n_loop" /\ page_count <= MaxParts
    /\ ~isfile(disk, page_count)
    /\ \E c \in {"absent", "bad"} : disk' = [disk EXCEPT ![page_count] = c]
    /\ pc' = "n_fallback"
    /\ UNCHANGED <<script, visited, to_visit, pdf_files, page_count, url, merged,
                   raised, trace, site, otherVars>>

\* requests.get and pdfkit.from_string succeed: downloaded_pdfs.append(out_path)
N_FallbackOk ==
    /\ script = "nginx" /\ pc = "n_fallback"
    /\ \E c \in PdfContents : disk' = [disk EXCEPT ![page_count] = c]
    /\ pdf_files' = Append(pdf_files, page_count)
    /\ page_count' = page_count + 1
    /\ pc' = "n_loop"
    /\ UNCHANGED <<script, visited, to_visit, url, merged, raised, trace, site, otherVars>>

\* the fallback raises too: continue, out_path is not added
N_FallbackFails ==
    /\ script = "nginx" /\ pc = "n_fallback"
    /\ \E c \in {disk[page_count], "bad"} : disk' = [disk EXCEPT ![page_count] = c]
    /\ page_count' = page_count + 1
    /\ pc' = "n_loop"
    /\ UNCHANGED <<script, visited, to_visit, pdf_files, url, merged, raised, trace,
                   site, otherVars>>

\* debian12 v2: every file is read inside a try, the unreadable ones are
\* skipped with a warning, and the writer's pages are written in any case
V2_Merge ==
    /\ script = "debian12v2" /\ pc = "merge"
    /\ merged' = merge_pdfs(pdf_files, disk)
    /\ pc' = "done"
    /\ UNCHANGED <<script, visited, to_visit, pdf_files, page_count, url, disk,
                   raised, trace, site, otherVars>>

\* after the loop: every readable input is added to the writer, the others are
\* logged, and the writer is written to MERGED_PDF_FILENAME
N_Merge ==
    /\ script = "nginx" /\ pc = "n_loop" /\ page_count > MaxParts
    /\ merged' = merge_pdfs(pdf_files, disk)
    /\ pc' = "done"
    /\ UNCHANGED <<script, visited, to_visit, pdf_files, page_count, url, disk,
                   raised, trace, site, otherVars>>

-----------------------------------------------------------------------------

IdleFilter == href = [netloc |-> <<>>, path |-> <<>>, rest |-> <<>>] /\ cfg = "none" /\ accepted = "unset"
\* fetch_and_cleanup_html has not been called
NotCalled == [st |-> "unset", out |-> <<>>]
IdleClean == doc = <<>> /\ cleaned = NotCalled
\* no retry loop has run
NoRet == [kind |-> "none"]
IdleRetry == attempt = 0 /\ ret = NoRet /\ polled = <<>>
IdleRun ==
    /\ b_run = "none" /\ b_resp = <<>>
    /\ f_failed = {} /\ f_cache = <<>> /\ f_tracker = <<>>

IdleBind ==
    /\ IdleRun
    /\ b_pc = "idle" /\ b_failed = {} /\ b_cache = <<>> /\ b_tracker = <<>>
    /\ b_files = <<>> /\ b_i = 0 /\ b_merger = <<>> /\ b_missing = <<>>
    /\ b_merge_failed = <<>> /\ b_final = NoFile /\ b_write_ok = "none" /\ b_summary = "none"

Init ==
    /\ InitCrawl \/ InitRedis \/ InitDebian \/ InitNginx
    /\ IdleFilter /\ IdleClean /\ IdleBind /\ IdleRetry

Next ==
    \/ LoopExit \/ PopVisited \/ PopNew \/ FetchFail \/ FetchOk
    \/ ConvertFetchFail \/ ApacheConvert \/ MariadbConvert
    \/ Summary \/ ApacheMerge \/ MariadbMerge
    \/ R_LoopExit \/ R_PopVisited \/ R_PopNew \/ R_FetchRaise \/ R_FetchOk
    \/ D11_MainRaise \/ D11_MainOk \/ D11_PartRaise \/ D11_PartOk
    \/ D12_Main \/ D12_GotoTimeout \/ D12_Part \/ D_PartsDone \/ D_Merge
    \/ V2_Main \/ V2_Part \/ V2_Merge
    \/ N_AlreadyExists \/ N_FromUrlOk \/ N_FromUrlFails \/ N_FallbackOk
    \/ N_FallbackFails \/ N_Merge

Spec == Init /\ [][Next]_vars

\* every script is one sequential process: it keeps running until it ends
FairSpec == Spec /\ WF_vars(Next)

-----------------------------------------------------------------------------
(* Properties of the crawl loops.                                           *)

\* how often url u passed the visited check and was processed
Count(u) == Cardinality({ i \in 1..Len(trace) : trace[i].url = u })

NoRepeat == \A i, j \in 1..Len(trace) : i # j => trace[i].url # trace[j].url

ApacheLike == script \in {"apache", "rspamd"}

LoopExited ==
    \/ script \in CrawlScripts /\ pc \in {"summary", "merge", "done", "aborted_merge"}
    \/ script = "redis" /\ pc \in {"crawled", "aborted_fetch"}

\* pages of the site not yet visited
Unvisited == Cardinality((IF script = "redis" THEN RedisPages ELSE Pages(script)) \ visited)

Rank(p) == CASE p \in {"fetch", "r_fetch"} -> 3
             [] p = "convert" -> 2
             [] p \in {"loop", "r_loop"} -> 1
             [] OTHER -> 0

\* the loop's variant <<unvisited pages, position in the iteration, worklist
\* length>> decreases lexicographically with every step
VariantDecreases ==
    \/ Unvisited' < Unvisited
    \/ Unvisited' = Unvisited /\ Rank(pc') < Rank(pc)
    \/ Unvisited' = Unvisited /\ Rank(pc') = Rank(pc) /\ Len(to_visit') < Len(to_visit)

CycleX == START_URL(script)
CycleY == CycleOther(script)

\* C2: a crawl of a site with a cycle terminates, in the Apache crawler (with
\* CRAWL_LIMIT) and in crawl_redis_docs (no limit): every step of the loop
\* decreases a well-founded variant, the loop is eventually left, and when it
\* is left no page was visited twice; on a site of two pages X and Y linking
\* to each other, X and Y were each visited exactly once when the start page
\* X could be fetched.
C2_CycleTerminates ==
    /\ (script \in {"apache", "redis"} => <>LoopExited)
    /\ [][(script \in {"apache", "redis"} /\ ~LoopExited) => VariantDecreases]_vars
    /\ []((script \in {"apache", "redis"} /\ LoopExited) =>
             /\ \A i \in 1..Len(trace) : Count(trace[i].url) = 1
             /\ (site.mode = "cycle" /\ trace # <<>> /\ trace[1].fetch = "ok") =>
                    Count(CycleX) = 1 /\ Count(CycleY) = 1)

\* C2 witness: the loop was left on a two-page cycle, both pages fetched
C2_Witness ==
    /\ script = "redis" /\ site.mode = "cycle" /\ pc = "crawled"
    /\ Len(trace) = 2 /\ trace[1].fetch = "ok" /\ trace[2].fetch = "ok"
    /\ InSeq(LinkTo("redis", CycleX), site.links[CycleY])

\* C3: in the crawlers with a cutoff the number of visited URLs never exceeds
\* CRAWL_LIMIT; when the limit is reached with a non-empty worklist the loop
\* stops without an error, and the script goes on to the summary and then to
\* the merge with the pages produced so far.
C3_Cutoff ==
    /\ [](script \in CrawlScripts => Cardinality(visited) <= CRAWL_LIMIT)
    /\ [][(script \in CrawlScripts /\ pc = "loop" /\ to_visit # <<>>
             /\ Cardinality(visited) >= CRAWL_LIMIT) =>
               (pc' = "summary" /\ ~raised' /\ pdf_files' = pdf_files /\ disk' = disk)]_vars
    /\ [][(script \in CrawlScripts /\ pc = "summary") =>
               /\ pc' = (IF pdf_files # <<>> THEN "merge" ELSE "done")
               /\ ~raised' /\ pdf_files' = pdf_files /\ disk' = disk]_vars

\* C3 witness: the merge step is reached after the cutoff stopped the loop with
\* entries left on the worklist
C3_Witness ==
    /\ script = "mariadb" /\ pc = "merge" /\ to_visit # <<>>
    /\ Cardinality(visited) = CRAWL_LIMIT

\* C4 (as claimed): to_visit never contains a URL twice.
C4_NoDuplicateQueued ==
    script = "apache" => \A i, j \in 1..Len(to_visit) : i # j => to_visit[i] # to_visit[j]

\* C4 (amended): a discovered link is appended to the worklist only if it is
\* not visited and is_valid_link accepts it; the worklist may hold a URL
\* several times, and a queued duplicate is dropped by the visited check when
\* it is dequeued.
C4_AppendedUnvisitedValid ==
    /\ [][script = "apache" =>
            /\ (pc = "fetch" =>
                  /\ SubSeq(to_visit', 1, Len(to_visit)) = to_visit
                  /\ \A k \in (Len(to_visit) + 1)..Len(to_visit') :
                        to_visit'[k] \notin visited /\ is_valid_link("apache", to_visit'[k]))
            /\ (pc # "fetch" => Len(to_visit') <= Len(to_visit))
            /\ ((pc = "loop" /\ loop_condition(to_visit, visited) /\ Last(to_visit) \in visited)
                   => trace' = trace /\ pc' = "loop")]_vars

\* C4 witness: the same link is queued twice
C4_Witness ==
    /\ script = "apache"
    /\ \E i, j \in 1..Len(to_visit) : i # j /\ to_visit[i] = to_visit[j]

Failed(i) == trace[i].render = "fail"

\* C7 (as claimed): a page whose html_to_pdf failed contributes no pages to the
\* merged document, whatever files the output directory held before the run.
C7_FailedPageAbsent ==
    (ApacheLike /\ pc = "done" /\ merged.written) =>
        \A i \in 1..Len(trace) : Failed(i) =>
            \A k \in 1..Len(merged.pages) :
                ~(merged.pages[k].file = PdfName[trace[i].url]
                  /\ merged.pages[k].content \in {"stale", trace[i].url})

\* C8 (as claimed): pages A, B, C visited in that order, B's rendering fails,
\* A's and C's succeed (their files are readable, and the three pages have
\* three different file names): the merged output is A's pages followed by
\* C's pages.
C8_FailureIsolation ==
    (/\ script = "apache" /\ pc = "done" /\ Len(trace) = 3
     /\ trace[1].render = "ok" /\ trace[2].render = "fail" /\ trace[3].render = "ok"
     /\ Cardinality({PdfName[trace[i].url] : i \in 1..3}) = 3
     /\ disk[PdfName[trace[1].url]] = trace[1].url
     /\ disk[PdfName[trace[3].url]] = trace[3].url)
    => /\ merged.written
       /\ merged.pages = << Entry(disk, PdfName[trace[1].url]), Entry(disk, PdfName[trace[3].url]) >>

\* C9 (as claimed): in the merge of the MariaDB crawler and of the Debian 11
\* and Debian 12 (v1) converters an unreadable input is skipped, the other
\* inputs are appended in order, and the merged file is written.
C9_UnreadableInputSkipped ==
    (/\ script \in {"mariadb", "debian11", "debian12"}
     /\ pc \in {"done", "aborted_merge"} /\ pdf_files # <<>>)
    => /\ ~raised
       /\ merged = merge_pdfs(pdf_files, disk)

-----------------------------------------------------------------------------
(* is_valid_link as a function of its argument: one call per behaviour.     *)

IdleCrawl ==
    /\ script = "none" /\ pc = "idle" /\ visited = {} /\ to_visit = <<>>
    /\ pdf_files = <<>> /\ page_count = 0 /\ url = None /\ disk = <<>>
    /\ merged = NoFile /\ raised = FALSE /\ trace = <<>> /\ site = AnySite

\* longest tail of path segments after the leading ones
MaxSegs == 2

DOMAIN_EXAMPLE == <<"e","x","a","m","p","l","e",".","o","r","g">>
MIXED_EXAMPLE == <<"E","x","a","m","p","l","e",".","O","R","G">>
OTHER_ORG == <<"o","t","h","e","r",".","o","r","g">>
PORT_80 == <<":","8","0">>

\* the module globals is_valid_link reads: the script's own, and a second
\* configuration with domain example.org and the single keyword faq
FilterCfgs == {"apache", "example"}
DOMAIN_of(c) == IF c = "apache" THEN DOMAIN_APACHE ELSE DOMAIN_EXAMPLE
EXCLUDE_KEYWORDS_of(c) == IF c = "apache" THEN EXCLUDE_KEYWORDS_APACHE ELSE {<<"f","a","q">>}

Netlocs == { <<>>, DOMAIN_EXAMPLE, MIXED_EXAMPLE, OTHER_ORG, DOMAIN_EXAMPLE \o PORT_80,
             DOMAIN_APACHE }

LeadSegs == { <<>>, << <<"d","o","c","s">> >>,
              << <<"d","o","c","s">>, <<"c","u","r","r","e","n","t">> >>,
              << <<"D","o","c","s">>, <<"C","u","r","r","e","n","t">> >> }

TailSegs == { <<"m","o","d">>, <<"t","r">>, <<"T","R">>, <<"p","t","-","b","r">>,
              <<"f","a","q",".","h","t","m","l">>, <<"F","a","q">>,
              <<"c","o","r","e",".","h","t","m","l">>, <<"x",".","h","t","m","l">>, <<>> }

TailSeqs == UNION { [1..n -> TailSegs] : n \in 0..MaxSegs }

Paths == { join_path(l \o t) \o e : l \in LeadSegs, t \in TailSeqs, e \in {<<>>, <<"/">>} }

\* urlparse(href) of the hrefs tried; rest stands for query and fragment
Hrefs == { [netloc |-> n, path |-> p, rest |-> r] :
              n \in Netlocs, p \in Paths, r \in {<<>>, <<"#","a">>} }

InitFilter ==
    /\ href \in Hrefs /\ cfg \in FilterCfgs /\ accepted = "unset"
    /\ IdleCrawl /\ IdleClean /\ IdleBind /\ IdleRetry

\* accepted = is_valid_link(href)
CallIsValidLink ==
    /\ cfg \in FilterCfgs /\ accepted = "unset"
    /\ accepted' = IF is_valid_link_cfg(href, DOMAIN_of(cfg), EXCLUDE_KEYWORDS_of(cfg))
                   THEN "accept" ELSE "reject"
    /\ UNCHANGED <<href, cfg, crawlVars, cleanVars, bindVars, runVars, retryVars>>

SpecFilter == InitFilter /\ [][CallIsValidLink]_vars

\* the host of a netloc: what precedes the port
hostname(n) == IF \E i \in 1..Len(n) : n[i] = ":" THEN Head(split(n, ":")) ELSE n

Segments(path) == split(strip(path, "/"), "/")

NoKeywordIn(path, keywords) ==
    \A kw \in keywords :
        \A i \in 1..Len(path) : i + Len(kw) - 1 <= Len(path) =>
            \E k \in 1..Len(kw) : lower_char(path[i + k - 1]) # kw[k]

LocaleFree(path) ==
    Len(Segments(path)) < 3 \/ ~LOCALE_CODE_REGEX(Segments(path)[3])

PrefixAnyCase(path) ==
    /\ Len(path) >= Len(DOC_PATH_PREFIX)
    /\ \A i \in 1..Len(DOC_PATH_PREFIX) : lower_char(path[i]) = DOC_PATH_PREFIX[i]

ExampleHref(n, segs) == [netloc |-> n, path |-> join_path(segs), rest |-> <<>>]
DocsCurrent == << <<"d","o","c","s">>, <<"c","u","r","r","e","n","t">> >>
Ex_faq == ExampleHref(DOMAIN_EXAMPLE, DocsCurrent \o << <<"f","a","q",".","h","t","m","l">> >>)
Ex_core == ExampleHref(DOMAIN_EXAMPLE,
               DocsCurrent \o << <<"m","o","d">>, <<"c","o","r","e",".","h","t","m","l">> >>)
Ex_other == ExampleHref(OTHER_ORG, DocsCurrent \o << <<"x",".","h","t","m","l">> >>)
Ex_tr == ExampleHref(DOMAIN_EXAMPLE, DocsCurrent \o << <<"t","r">>, <<"x",".","h","t","m","l">> >>)

Examples ==
    (cfg = "example" /\ accepted # "unset") =>
        /\ (href = Ex_faq => accepted = "reject")
        /\ (href = Ex_core => accepted = "accept")
        /\ (href = Ex_other => accepted = "reject")
        /\ (href = Ex_tr => accepted = "reject")

\* C5 (as claimed): is_valid_link accepts exactly the non-empty URLs whose host
\* is empty or the domain (any case), whose path starts with /docs/current/,
\* whose lower-cased path contains no exclude keyword, and whose third path
\* segment, if there is one, is no locale code.
C5_AcceptsIffClaimed ==
    accepted # "unset" =>
        (accepted = "accept" <=>
            /\ ~href_empty(href)
            /\ (hostname(href.netloc) = <<>> \/ lower(hostname(href.netloc)) = DOMAIN_of(cfg))
            /\ startswith(href.path, DOC_PATH_PREFIX)
            /\ NoKeywordIn(href.path, EXCLUDE_KEYWORDS_of(cfg))
            /\ LocaleFree(href.path))

\* C5 (amended): is_valid_link accepts exactly the non-empty URLs whose netloc
\* (host together with any port) is empty or, lower-cased, the domain, whose
\* path starts with /docs/current/ in any letter case, whose lower-cased path
\* contains no exclude keyword, and whose third path segment, if there is
\* one, is no locale code; the four example URLs are decided as stated.
C5_AcceptsIffAnyCasePrefix ==
    /\ accepted # "unset" =>
        (accepted = "accept" <=>
            /\ ~href_empty(href)
            /\ (href.netloc = <<>> \/ lower(href.netloc) = DOMAIN_of(cfg))
            /\ PrefixAnyCase(href.path)
            /\ NoKeywordIn(href.path, EXCLUDE_KEYWORDS_of(cfg))
            /\ LocaleFree(href.path))
    /\ Examples

\* C5 witness: a URL under /Docs/Current/ has been accepted
C5_Witness ==
    /\ accepted = "accept" /\ cfg = "example"
    /\ ~startswith(href.path, DOC_PATH_PREFIX)
    /\ Len(Segments(href.path)) >= 3

-----------------------------------------------------------------------------
(* fetch_and_cleanup_html of the Apache crawler as a function of the        *)
(* document the server returns.  A document is the sequence of its          *)
(* top-level nodes; a node is a text or an element with child nodes.        *)
(* clutter marks an element that one of SELECTORS_TO_REMOVE matches.        *)

\* most top-level nodes of a document
MaxNodes == 2

TextNode == [tag |-> "text", clutter |-> FALSE, kids |-> <<>>]
Tags == {"body", "page-content", "div"}
Element(t, c, k) == [tag |-> t, clutter |-> c, kids |-> k]

LeafNodes == {TextNode} \cup { Element(t, c, <<>>) : t \in Tags, c \in BOOLEAN }
Nodes == LeafNodes \cup { Element(t, c, <<k>>) : t \in Tags, c \in BOOLEAN, k \in LeafNodes }
Docs == UNION { [1..n -> Nodes] : n \in 0..MaxNodes }

\* for sel in SELECTORS_TO_REMOVE: for tag in soup.select(sel): tag.decompose()
RECURSIVE decompose(_)
decompose(nodes) ==
    IF nodes = <<>> THEN <<>>
    ELSE (IF Head(nodes).clutter THEN <<>>
          ELSE << [Head(nodes) EXCEPT !.kids = decompose(Head(nodes).kids)] >>)
         \o decompose(Tail(nodes))

\* soup.find(...): the first element with the tag in document order, as a
\* sequence of one node, or <<>> for None
RECURSIVE find(_, _)
find(nodes, tag) ==
    IF nodes = <<>> THEN <<>>
    ELSE IF Head(nodes).tag = tag THEN <<Head(nodes)>>
    ELSE IF find(Head(nodes).kids, tag) # <<>> THEN find(Head(nodes).kids, tag)
    ELSE find(Tail(nodes), tag)

OpenTag(n) == CASE n.tag = "body" -> IF n.clutter THEN "<body class=menu>" ELSE "<body>"
                [] n.tag = "page-content" ->
                      IF n.clutter THEN "<div id=page-content class=menu>"
                      ELSE "<div id=page-content>"
                [] OTHER -> IF n.clutter THEN "<nav>" ELSE "<div>"
CloseTag(n) == CASE n.tag = "body" -> "</body>"
                 [] n.tag = "div" /\ n.clutter -> "</nav>"
                 [] OTHER -> "</div>"

\* str(...): the markup of the nodes, one token per tag or text
RECURSIVE str(_)
str(nodes) ==
    IF nodes = <<>> THEN <<>>
    ELSE (IF Head(nodes).tag = "text" THEN <<"text">>
          ELSE <<OpenTag(Head(nodes))>> \o str(Head(nodes).kids) \o <<CloseTag(Head(nodes))>>)
         \o str(Tail(nodes))

\* content_div if present, else soup.body or soup
select_output_body_first(soup) ==
    IF find(soup, "body") # <<>> THEN str(find(soup, "body"))
    ELSE IF find(soup, "page-content") # <<>> THEN str(find(soup, "page-content"))
    ELSE str(soup)
select_output(soup) ==
    IF find(soup, "page-content") # <<>> THEN str(find(soup, "page-content"))
    ELSE IF find(soup, "body") # <<>> THEN str(find(soup, "body"))
    ELSE str(soup)

fetch_and_cleanup_html(d) == select_output(decompose(d))

InitClean ==
    /\ doc \in Docs /\ cleaned = NotCalled
    /\ IdleCrawl /\ IdleFilter /\ IdleBind /\ IdleRetry

\* requests.get or resp.raise_for_status() raises: the exception leaves the function
CleanupFetchRaises ==
    /\ cleaned = NotCalled /\ script = "none" /\ b_pc = "idle" /\ cfg = "none"
    /\ cleaned' = [st |-> "fetch_failed", out |-> <<>>]
    /\ UNCHANGED <<doc, crawlVars, filterVars, bindVars, runVars, retryVars>>

\* the response is parsed, cleaned and the selected part returned
CleanupReturns ==
    /\ cleaned = NotCalled /\ script = "none" /\ b_pc = "idle" /\ cfg = "none"
    /\ cleaned' = [st |-> "ok", out |-> fetch_and_cleanup_html(doc)]
    /\ UNCHANGED <<doc, crawlVars, filterVars, bindVars, runVars, retryVars>>

SpecClean == InitClean /\ [][CleanupFetchRaises \/ CleanupReturns]_vars

\* an element with the tag that no removal selector matches, itself or by an ancestor
Survives(tag) ==
    \E i \in 1..Len(doc) :
        /\ ~doc[i].clutter
        /\ \/ doc[i].tag = tag
           \/ \E j \in 1..Len(doc[i].kids) : ~doc[i].kids[j].clutter /\ doc[i].kids[j].tag = tag

\* the markup of the surviving elements with the tag, removal applied inside them
Surviving(tag) ==
    LET top == { i \in 1..Len(doc) : ~doc[i].clutter }
    IN  { str(decompose(<<doc[i]>>)) : i \in { k \in top : doc[k].tag = tag } }
        \cup { str(<<doc[i].kids[1]>>) :
                  i \in { k \in top : /\ Len(doc[k].kids) = 1
                                      /\ ~doc[k].kids[1].clutter
                                      /\ doc[k].kids[1].tag = tag } }

LacksMainContent ==
    \A i \in 1..Len(doc) :
        doc[i].tag # "page-content" /\ \A j \in 1..Len(doc[i].kids) : doc[i].kids[j].tag # "page-content"

ClutterTokens == {"<body class=menu>", "<div id=page-content class=menu>", "<nav>", "</nav>"}

SelectionRule ==
    /\ \A i \in 1..Len(cleaned.out) : cleaned.out[i] \notin ClutterTokens
    /\ Survives("page-content") => cleaned.out \in Surviving("page-content")
    /\ (~Survives("page-content") /\ Survives("body")) => cleaned.out \in Surviving("body")
    /\ (~Survives("page-content") /\ ~Survives("body")) => cleaned.out = str(decompose(doc))

\* C6 (as claimed): the output is the main-content region if it is still
\* there after the removal, else the body, else the whole remaining document;
\* a document lacking the main-content region never yields an empty result.
C6_NeverEmptyWithoutMainContent ==
    cleaned.st = "ok" =>
        /\ SelectionRule
        /\ (LacksMainContent => cleaned.out # <<>>)

\* C6 (amended): the output is the main-content region if it is still there
\* after the removal, else the body, else the whole remaining document; once
\* the response has arrived nothing raises; the result is empty exactly when
\* neither the region nor a body is left and the removal left nothing of the
\* document at all (an empty response, or one made only of removed elements);
\* a document lacking the region whose body is left yields the body.
C6_SelectsRegionBodyOrDocument ==
    /\ cleaned.st \in {"unset", "fetch_failed", "ok"}
    /\ cleaned.st = "ok" =>
        /\ SelectionRule
        /\ (cleaned.out = <<>> <=> \A i \in 1..Len(doc) : doc[i].clutter)
        /\ ((LacksMainContent /\ Survives("body")) =>
               (cleaned.out # <<>> /\ cleaned.out[1] = "<body>"))

\* C6 witness: a document without the region, with a body inside an element
\* and clutter next to it, has been cleaned down to the body
C6_Witness ==
    /\ cleaned.st = "ok" /\ LacksMainContent /\ Survives("body")
    /\ \E i \in 1..Len(doc) : doc[i].clutter
    /\ \E i \in 1..Len(doc) : doc[i].tag = "div" /\ doc[i].kids # <<>>
    /\ cleaned.out = <<"<body>", "</body>">>

-----------------------------------------------------------------------------
(* Step C of the bind9 script: the merge of the per-article PDFs.  A slug   *)
(* is its position in ARTICLE_SLUGS; the file <slug>.pdf is named by the    *)
(* slug; 0 stands for "no entry" in pdf_tracker.                            *)

\* number of slugs in ARTICLE_SLUGS
MaxSlugs == 2

ARTICLE_SLUGS == [i \in 1..MaxSlugs |-> i]
ArtIds == {"a1", "a2"}
\* what is at a path: nothing, a file PdfReader rejects, a PDF without pages, a PDF
FileKinds == {"absent", "bad", "empty", "good"}

\* the state Steps A and B leave behind
InitBind9 ==
    /\ b_pc = "merge_loop"
    /\ b_failed \in SUBSET (1..MaxSlugs)
    /\ b_cache \in [1..MaxSlugs -> ArtIds \cup {None}]
    /\ b_tracker \in [ArtIds -> 0..MaxSlugs]
    /\ b_files \in [1..MaxSlugs -> FileKinds]
    /\ b_i = 1
    /\ b_merger = <<>> /\ b_missing = <<>> /\ b_merge_failed = <<>>
    /\ b_final = NoFile /\ b_write_ok = "none" /\ b_summary = "none"
    /\ IdleCrawl /\ IdleFilter /\ IdleClean /\ IdleRun /\ IdleRetry

slug == ARTICLE_SLUGS[b_i]
InMergeLoop == b_pc = "merge_loop" /\ b_i <= MaxSlugs
art_id == b_cache[slug]
pdf_path == b_tracker[art_id]
bindOther == <<crawlVars, filterVars, cleanVars, runVars, retryVars>>

\* pdf_path and os.path.isfile(pdf_path)
has_pdf_never(path) == FALSE
has_pdf(path) == IF path = 0 THEN FALSE ELSE b_files[path] # "absent"

\* if slug in failed_slugs: missing_slugs.append(slug); continue
C_SkipFailed ==
    /\ InMergeLoop /\ slug \in b_failed
    /\ b_missing' = Append(b_missing, slug)
    /\ b_i' = b_i + 1
    /\ UNCHANGED <<b_pc, b_failed, b_cache, b_tracker, b_files, b_merger,
                   b_merge_failed, b_final, b_write_ok, b_summary, bindOther>>

\* if not art_id: missing_slugs.append(slug); continue
C_NoArticleId ==
    /\ InMergeLoop /\ slug \notin b_failed
    /\ art_id = None
    /\ b_missing' = Append(b_missing, slug)
    /\ b_i' = b_i + 1
    /\ UNCHANGED <<b_pc, b_failed, b_cache, b_tracker, b_files, b_merger,
                   b_merge_failed, b_final, b_write_ok, b_summary, bindOther>>

\* if not pdf_path or not os.path.isfile(pdf_path): missing_slugs.append(slug); continue
C_NoPdf ==
    /\ InMergeLoop /\ slug \notin b_failed
    /\ art_id # None
    /\ ~has_pdf(pdf_path)
    /\ b_missing' = Append(b_missing, slug)
    /\ b_i' = b_i + 1
    /\ UNCHANGED <<b_pc, b_failed, b_cache, b_tracker, b_files, b_merger,
                   b_merge_failed, b_final, b_write_ok, b_summary, bindOther>>

\* the pages merger.append(reader) adds for a readable file
reader_pages(s, path, kind) ==
    IF kind = "good" THEN << [slug |-> s, file |-> path] >> ELSE <<>>

\* merger.append(reader): the pages go to the end of the merger
merger_prepend(m, pages) == pages \o m
merger_append(m, pages) == m \o pages

\* open, PdfReader, merger.append(reader) succeed
C_Append ==
    /\ InMergeLoop /\ slug \notin b_failed
    /\ art_id # None
    /\ has_pdf(pdf_path) /\ b_files[pdf_path] \in {"empty", "good"}
    /\ b_merger' = merger_append(b_merger, reader_pages(slug, pdf_path, b_files[pdf_path]))
    /\ b_i' = b_i + 1
    /\ UNCHANGED <<b_pc, b_failed, b_cache, b_tracker, b_files, b_missing,
                   b_merge_failed, b_final, b_write_ok, b_summary, bindOther>>

\* open, PdfReader or merger.append raises: merge_failed_slugs.append(slug)
C_AppendFails ==
    /\ InMergeLoop /\ slug \notin b_failed
    /\ art_id # None
    /\ has_pdf(pdf_path) /\ b_files[pdf_path] = "bad"
    /\ b_merge_failed' = Append(b_merge_failed, slug)
    /\ b_i' = b_i + 1
    /\ UNCHANGED <<b_pc, b_failed, b_cache, b_tracker, b_files, b_merger,
                   b_missing, b_final, b_write_ok, b_summary, bindOther>>

\* the for loop over ARTICLE_SLUGS is finished
C_LoopDone ==
    /\ b_pc = "merge_loop" /\ b_i > MaxSlugs
    /\ b_pc' = "write"
    /\ UNCHANGED <<b_failed, b_cache, b_tracker, b_files, b_i, b_merger, b_missing,
                   b_merge_failed, b_final, b_write_ok, b_summary, bindOther>>

\* if merger.pages:
merger_pages_always(m) == TRUE
merger_pages(m) == m # <<>>

\* open(FINAL_MERGED_PDF, "wb") and merger.write(f_out) succeed
C_Write ==
    /\ b_pc = "write" /\ merger_pages(b_merger)
    /\ b_final' = Written(b_merger)
    /\ b_write_ok' = "ok"
    /\ b_pc' = "summary"
    /\ UNCHANGED <<b_failed, b_cache, b_tracker, b_files, b_i, b_merger, b_missing,
                   b_merge_failed, b_summary, bindOther>>

\* open or merger.write raises; the except branch prints the error (a write
\* that fails half-way leaves an incomplete file, which is no merged document)
C_WriteFails ==
    /\ b_pc = "write" /\ merger_pages(b_merger)
    /\ b_write_ok' \in {"open_failed", "write_failed"}
    /\ b_pc' = "summary"
    /\ UNCHANGED <<b_failed, b_cache, b_tracker, b_files, b_i, b_merger, b_missing,
                   b_merge_failed, b_final, b_summary, bindOther>>

\* else: "[WARN] No PDFs were appended, so we did not create a merged file."
C_NoWrite ==
    /\ b_pc = "write" /\ ~merger_pages(b_merger)
    /\ b_pc' = "summary"
    /\ UNCHANGED <<b_failed, b_cache, b_tracker, b_files, b_i, b_merger, b_missing,
                   b_merge_failed, b_final, b_write_ok, b_summary, bindOther>>

\* if missing_slugs or merge_failed_slugs: ... else: "All PDFs present and merged"
summary_message_all(missing, merge_failed) == "all_merged"
summary_message(missing, merge_failed) ==
    IF missing # <<>> \/ merge_failed # <<>> THEN "some_missing" ELSE "all_merged"

\* the final summary
C_Summary ==
    /\ b_pc = "summary"
    /\ b_summary' = summary_message(b_missing, b_merge_failed)
    /\ b_pc' = "finished"
    /\ UNCHANGED <<b_failed, b_cache, b_tracker, b_files, b_i, b_merger, b_missing,
                   b_merge_failed, b_final, b_write_ok, bindOther>>

NextBind9 ==
    \/ C_SkipFailed \/ C_NoArticleId \/ C_NoPdf \/ C_Append \/ C_AppendFails
    \/ C_LoopDone \/ C_Write \/ C_WriteFails \/ C_NoWrite \/ C_Summary

SpecBind9 == InitBind9 /\ [][NextBind9]_vars

\* the slugs whose PDF was appended without an exception
Appended ==
    { s \in 1..(b_i - 1) : ~InSeq(s, b_missing) /\ ~InSeq(s, b_merge_failed) }

NoneAppendable ==
    \A s \in 1..MaxSlugs :
        \/ s \in b_failed
        \/ b_cache[s] = None
        \/ ~has_pdf(b_tracker[b_cache[s]])
        \/ b_files[b_tracker[b_cache[s]]] = "bad"

-----------------------------------------------------------------------------
(* Error handling of the crawl loops.                                       *)

\* C19 (as claimed): in the Redis crawler, the Debian 11 converter and the
\* MariaDB crawler an exception leaves the script only for a failure on the
\* start page: a fetch error on a later Redis page, a navigation failure on
\* a part after Part 1 and an append failure in the MariaDB merge are caught
\* and the script goes on.
C19_OnlyStartPageFailureAborts ==
    (script \in {"redis", "debian11", "mariadb"} /\ raised) =>
        \/ script = "redis" /\ Len(trace) = 1
        \/ script = "debian11" /\ pdf_files = <<>>

\* C20: in the Apache crawler, when the first fetch of the dequeued URL fails,
\* the URL stays in visited, the worklist, the list of PDF paths, the page
\* count and the output directory are unchanged, no exception escapes, and
\* the loop goes on: the next step is the test of the loop condition, which
\* either dequeues the next entry or ends the loop.
C20_FailedFetchSkipsItem ==
    /\ [][(script = "apache" /\ pc = "fetch" /\ Last(trace').fetch = "fail") =>
            /\ url \in visited' /\ visited' = visited
            /\ to_visit' = to_visit
            /\ pdf_files' = pdf_files /\ page_count' = page_count /\ disk' = disk
            /\ ~raised' /\ pc' = "loop"]_vars
    /\ [](script = "apache" =>
            /\ \A i \in 1..Len(trace) : trace[i].fetch = "fail" => trace[i].url \in visited
            /\ Len(pdf_files) <= Cardinality({ i \in 1..Len(trace) : trace[i].fetch = "ok" })
            /\ (pc = "loop" /\ trace # <<>> /\ Last(trace).fetch = "fail") =>
                  ENABLED (LoopExit \/ PopVisited \/ PopNew))

\* C20 witness: a fetch has failed and the loop has dequeued and fetched the
\* next worklist entry
C20_Witness ==
    /\ script = "apache" /\ pc = "convert" /\ Len(trace) = 3
    /\ trace[2].fetch = "fail" /\ trace[3].fetch = "ok"
    /\ trace[2].url \in visited /\ Len(pdf_files) = 1

\* C11 (as claimed): in the nginx converter and the Apache crawler, when none
\* of the per-page PDFs can be appended (no page was rendered, or no listed
\* file is readable), no merged output file is produced.
C11_NoOutputWhenNothingAppendable ==
    (/\ script \in {"nginx", "apache"} /\ pc = "done"
     /\ \A i \in 1..Len(pdf_files) : ~Readable(disk[pdf_files[i]]))
    => ~merged.written

-----------------------------------------------------------------------------
(* bind9: Steps A and B of main(), the three JSON files, and a second run  *)
(* of the script that starts from what the first run left on disk.  Step C *)
(* is SpecBind9 above, which starts from every state Step B can leave.     *)

Slugs == 1..MaxSlugs

\* GLOBAL_ID = PROJECT_VERSION_ID.lower(); GLOBAL_UPPER is the same
\* identifier as a page may spell it in upper case
GLOBAL_ID == "global"
GLOBAL_UPPER == "GLOBAL"
MatchIds == ArtIds \cup {GLOBAL_ID, GLOBAL_UPPER}

\* str.lower() on an identifier
lower_id(m) == IF m = GLOBAL_UPPER THEN GLOBAL_ID ELSE m

\* load_json_dict / load_json_list of a file that is missing or unparsable
EmptyCache == [s \in Slugs |-> None]
EmptyTracker == [a \in ArtIds |-> 0]
EmptyList == {}

\* find_real_article_id(html_text), on the sequence of "articleId" matches
find_real_article_id_first(matches) ==
    IF matches = <<>> THEN None ELSE matches[1]
find_real_article_id(matches) ==
    LET real_ids == SelectSeq(matches, LAMBDA m : lower_id(m) # GLOBAL_ID)
    IN  IF real_ids = <<>> THEN None ELSE real_ids[1]

\* what page.goto / page.content give for one slug
MaxMatches == 2
MatchSeqs == UNION { [1..n -> MatchIds] : n \in 0..MaxMatches }
NoResp == [kind |-> "none", status |-> 0, empty |-> TRUE, matches |-> <<>>]
NavResponses ==
    { [kind |-> "exception", status |-> 0, empty |-> TRUE, matches |-> <<>>],
      [kind |-> "no_response", status |-> 0, empty |-> TRUE, matches |-> <<>>] }
    \cup { [kind |-> "page", status |-> st, empty |-> TRUE, matches |-> <<>>] :
             st \in {200, 404} }
    \cup { [kind |-> "page", status |-> st, empty |-> FALSE, matches |-> ms] :
             st \in {200, 404}, ms \in MatchSeqs }

\* the outcomes of generate_single_article_pdf
GenKinds == {"post_failed", "no_task_id", "poll_exhausted", "no_url", "url"}
GenResponse(k) == [kind |-> k, status |-> 0, empty |-> TRUE, matches |-> <<>>]

\* save_json_dict / save_json_list: open(filepath, "w") truncates the file,
\* json.dump writes it; an exception of either is printed and swallowed
SaveOutcomes == {"ok", "open_failed", "dump_failed"}
save_json(data, file, empty, o) ==
    CASE o = "ok" -> data
      [] o = "open_failed" -> file
      [] o = "dump_failed" -> empty

\* files that are gone when the next run starts
scriptOther == <<crawlVars, filterVars, cleanVars, retryVars>>

FilesAfterLoss(files) ==
    {files} \cup { [files EXCEPT ![s] = "absent"] : s \in Slugs }

\* main() 622-626 of the next run: the three files are loaded
Load(ff, fc, ft, files) ==
    /\ b_run = "first"
    /\ b_run' = "second"
    /\ f_failed' = ff /\ f_cache' = fc /\ f_tracker' = ft
    /\ b_failed' = ff /\ b_cache' = fc /\ b_tracker' = ft
    /\ b_pc' = "a_loop" /\ b_i' = 1
    /\ b_resp' = NoResp
    /\ b_merger' = <<>> /\ b_missing' = <<>> /\ b_merge_failed' = <<>>
    /\ b_write_ok' = "none" /\ b_summary' = "none"
    /\ b_files' \in FilesAfterLoss(files)
    /\ UNCHANGED <<b_final, scriptOther>>

InitRun ==
    /\ b_run = "first" /\ b_pc = "a_loop" /\ b_i = 1
    /\ b_failed = EmptyList /\ b_cache = EmptyCache /\ b_tracker = EmptyTracker
    /\ f_failed = EmptyList /\ f_cache = EmptyCache /\ f_tracker = EmptyTracker
    /\ b_files = [s \in Slugs |-> "absent"]
    /\ b_resp = NoResp
    /\ b_merger = <<>> /\ b_missing = <<>> /\ b_merge_failed = <<>>
    /\ b_final = NoFile /\ b_write_ok = "none" /\ b_summary = "none"
    /\ IdleCrawl /\ IdleFilter /\ IdleClean /\ IdleRetry

InStepA == b_pc = "a_loop" /\ b_i <= MaxSlugs
InStepB == b_pc = "b_loop" /\ b_i <= MaxSlugs

\* the iteration ends: either the script goes on to the next slug, or it is
\* stopped while writing the k-th file of the iteration (killed = k)
NextSlug(loop, failed, cache, tracker, ff, fc, ft, killed) ==
    IF killed
    THEN Load(ff, fc, ft, b_files)
    ELSE /\ b_failed' = failed /\ b_cache' = cache /\ b_tracker' = tracker
         /\ f_failed' = ff /\ f_cache' = fc /\ f_tracker' = ft
         /\ b_pc' = loop /\ b_i' = b_i + 1 /\ b_resp' = NoResp
         /\ UNCHANGED <<b_run, b_files, b_merger, b_missing, b_merge_failed,
                        b_final, b_write_ok, b_summary, scriptOther>>

\* Step A 641-644: a failed slug, or a slug with a stored articleId, is skipped
A_Skip ==
    /\ InStepA
    /\ slug \in b_failed \/ b_cache[slug] # None
    /\ b_i' = b_i + 1
    /\ UNCHANGED <<b_pc, b_failed, b_cache, b_tracker, b_files, b_merger, b_missing,
                   b_merge_failed, b_final, b_write_ok, b_summary, bindOther>>

\* Step A 647-652: page.goto(url)
A_Navigate ==
    /\ InStepA
    /\ slug \notin b_failed /\ b_cache[slug] = None
    /\ b_resp' \in NavResponses
    /\ b_pc' = "a_got"
    /\ UNCHANGED <<b_failed, b_cache, b_tracker, b_files, b_i, b_merger, b_missing,
                   b_merge_failed, b_final, b_write_ok, b_summary,
                   b_run, f_failed, f_cache, f_tracker, scriptOther>>

\* Step A 653-657: page.goto raised
A_Exception ==
    /\ b_pc = "a_got" /\ b_resp.kind = "exception"
    /\ \E o \in SaveOutcomes, k \in 0..1 :
         LET failed == b_failed \cup {slug}
             ff == IF k = 1 THEN EmptyList
                   ELSE save_json(failed, f_failed, EmptyList, o)
         IN  NextSlug("a_loop", failed, b_cache, b_tracker,
                      ff, f_cache, f_tracker, k > 0)

\* Step A 662-669: no response object
A_NoResponse ==
    /\ b_pc = "a_got" /\ b_resp.kind = "no_response"
    /\ \E o1 \in SaveOutcomes, o2 \in SaveOutcomes, k \in 0..2 :
         LET failed == b_failed \cup {slug}
             cache == [b_cache EXCEPT ![slug] = None]
             ff == IF k = 1 THEN EmptyList
                   ELSE save_json(failed, f_failed, EmptyList, o1)
             fc == IF k = 1 THEN f_cache
                   ELSE IF k = 2 THEN EmptyCache
                   ELSE save_json(cache, f_cache, EmptyCache, o2)
         IN  NextSlug("a_loop", failed, cache, b_tracker, ff, fc, f_tracker, k > 0)

\* Step A 671-696: a response came back
A_Page ==
    /\ b_pc = "a_got" /\ b_resp.kind = "page"
    /\ \E o1 \in SaveOutcomes, o2 \in SaveOutcomes, k \in 0..2 :
         LET found_id == IF b_resp.status = 200 /\ ~b_resp.empty
                         THEN find_real_article_id(b_resp.matches) ELSE None
             cache == [b_cache EXCEPT ![slug] = found_id]
             failed == IF found_id # None THEN b_failed ELSE b_failed \cup {slug}
             fc == IF k = 1 THEN EmptyCache
                   ELSE save_json(cache, f_cache, EmptyCache, o1)
             ff == IF k = 1 THEN f_failed
                   ELSE IF k = 2 THEN EmptyList
                   ELSE save_json(failed, f_failed, EmptyList, o2)
         IN  NextSlug("a_loop", failed, cache, b_tracker, ff, fc, f_tracker, k > 0)

\* Step A is over (698): Step B starts
A_Done ==
    /\ b_pc = "a_loop" /\ b_i > MaxSlugs
    /\ b_pc' = "b_loop" /\ b_i' = 1
    /\ UNCHANGED <<b_failed, b_cache, b_tracker, b_files, b_merger, b_missing,
                   b_merge_failed, b_final, b_write_ok, b_summary, bindOther>>

\* Step B 706-713: a failed slug, and a slug without a stored articleId, are
\* skipped (after Step A of the same run every slug is one or the other)
B_Skip ==
    /\ InStepB
    /\ slug \in b_failed \/ art_id = None
    /\ b_i' = b_i + 1
    /\ UNCHANGED <<b_pc, b_failed, b_cache, b_tracker, b_files, b_merger, b_missing,
                   b_merge_failed, b_final, b_write_ok, b_summary, bindOther>>

\* Step B 716-720: the tracked file exists
B_AlreadyDownloaded ==
    /\ InStepB /\ slug \notin b_failed /\ art_id # None
    /\ has_pdf(pdf_path)
    /\ b_i' = b_i + 1
    /\ UNCHANGED <<b_pc, b_failed, b_cache, b_tracker, b_files, b_merger, b_missing,
                   b_merge_failed, b_final, b_write_ok, b_summary, bindOther>>

\* Step B 721-724: del pdf_tracker[art_id] when the tracked file is missing
forget_missing_keep(tracker, art) == tracker
forget_missing(tracker, art) == [tracker EXCEPT ![art] = 0]

\* Step B 716-729: generate_single_article_pdf(art_id, slug, session)
B_Generate ==
    /\ InStepB /\ slug \notin b_failed /\ art_id # None
    /\ ~has_pdf(pdf_path)
    /\ b_tracker' = forget_missing(b_tracker, art_id)
    /\ \E k \in GenKinds : b_resp' = GenResponse(k)
    /\ b_pc' = "b_got"
    /\ UNCHANGED <<b_failed, b_cache, b_files, b_i, b_merger, b_missing,
                   b_merge_failed, b_final, b_write_ok, b_summary,
                   b_run, f_failed, f_cache, f_tracker, scriptOther>>

\* what a download that answers 200 writes to {slug}.pdf
DownloadKinds == {"good"}

\* the end of a Step B iteration (742): save_json_dict(pdf_tracker)
EndStepB(tracker, files) ==
    \E o \in SaveOutcomes, k \in 0..1 :
        LET ft == IF k = 1 THEN EmptyTracker
                  ELSE save_json(tracker, f_tracker, EmptyTracker, o)
        IN  IF k = 1
            THEN /\ Load(f_failed, f_cache, ft, files)
            ELSE /\ b_tracker' = tracker /\ f_tracker' = ft
                 /\ b_files' = files
                 /\ b_pc' = "b_loop" /\ b_i' = b_i + 1 /\ b_resp' = NoResp
                 /\ UNCHANGED <<b_failed, b_cache, b_merger, b_missing,
                                b_merge_failed, b_final, b_write_ok, b_summary,
                                b_run, f_failed, f_cache, scriptOther>>

\* Step B 731-739: no pdf_url
B_NoUrl ==
    /\ b_pc = "b_got" /\ b_resp.kind \in GenKinds \ {"url"}
    /\ EndStepB(b_tracker, b_files)

\* Step B 733-737: download_pdf_file(pdf_url, out_name, session) returns True
B_Download ==
    /\ b_pc = "b_got" /\ b_resp.kind = "url"
    /\ \E kind \in DownloadKinds :
         EndStepB([b_tracker EXCEPT ![art_id] = slug],
                  [b_files EXCEPT ![slug] = kind])

\* Step B 733-739: download_pdf_file returns False
B_DownloadFails ==
    /\ b_pc = "b_got" /\ b_resp.kind = "url"
    /\ EndStepB(b_tracker, b_files)

\* Step B is over: Step C starts
B_Done ==
    /\ b_pc = "b_loop" /\ b_i > MaxSlugs
    /\ b_pc' = "merge_loop" /\ b_i' = 1
    /\ UNCHANGED <<b_failed, b_cache, b_tracker, b_files, b_merger, b_missing,
                   b_merge_failed, b_final, b_write_ok, b_summary, bindOther>>

\* the script is started again, after the first run ended or was stopped
\* between two of its steps
RunAgain ==
    /\ b_pc \in {"a_loop", "a_got", "b_loop", "b_got", "merge_loop"}
    /\ Load(f_failed, f_cache, f_tracker, b_files)

NextRun ==
    \/ A_Skip \/ A_Navigate \/ A_Exception \/ A_NoResponse \/ A_Page \/ A_Done
    \/ B_Skip \/ B_AlreadyDownloaded \/ B_Generate
    \/ B_NoUrl \/ B_Download \/ B_DownloadFails \/ B_Done
    \/ RunAgain

SpecRun == InitRun /\ [][NextRun]_vars

-----------------------------------------------------------------------------
(* Properties of Steps A and B.                                            *)

Resolved(failed, cache, s) ==
    s \notin failed /\ cache[s] # None /\ lower_id(cache[s]) # GLOBAL_ID
FailedSlug(failed, cache, s) == s \in failed /\ cache[s] = None
Unknown(failed, cache, s) == s \notin failed /\ cache[s] = None

\* the response is a 200 page with non-empty content that holds an articleId
\* other than the global one
GoodPage(r) ==
    /\ r.kind = "page" /\ r.status = 200 /\ ~r.empty
    /\ \E i \in 1..Len(r.matches) : lower_id(r.matches[i]) # GLOBAL_ID

\* a step of the script inside one run (the script is not stopped in it)
SameRun == b_run' = b_run

\* C12: a slug that is neither failed nor resolved when its Step A iteration
\* starts is navigated to, and leaves the iteration RESOLVED (a non-null
\* articleId other than the global one stored, not in failed_slugs) exactly
\* when the page came back with status 200, non-empty content and such an
\* articleId; in every other case (navigation exception, no response, other
\* status, empty content, no identifier) it leaves it FAILED (in
\* failed_slugs, no articleId stored).  Hence every slug Step A has passed
\* is in exactly one of the two states.
C12_ResolvedOrFailed ==
    /\ [][(b_pc = "a_got" /\ SameRun) =>
            /\ b_pc' = "a_loop" /\ b_i' = b_i + 1
            /\ IF GoodPage(b_resp)
               THEN Resolved(b_failed', b_cache', slug)
               ELSE FailedSlug(b_failed', b_cache', slug)
            /\ \A s \in Slugs \ {slug} :
                   b_cache'[s] = b_cache[s] /\ (s \in b_failed' <=> s \in b_failed)]_vars
    /\ [](b_run \in {"first", "second"} =>
            /\ (InStepA /\ Unknown(b_failed, b_cache, slug)) => ENABLED A_Navigate
            /\ b_pc = "a_got" =>
                   /\ Unknown(b_failed, b_cache, slug)
                   /\ ENABLED (A_Exception \/ A_NoResponse \/ A_Page)
            /\ \A s \in Slugs :
                   (b_pc \in {"b_loop", "b_got", "merge_loop"} \/ s < b_i) =>
                       /\ Resolved(b_failed, b_cache, s) \/ FailedSlug(b_failed, b_cache, s)
                       /\ ~(Resolved(b_failed, b_cache, s) /\ FailedSlug(b_failed, b_cache, s)))

\* C12 witness: Step A has resolved the first slug, and the page that came
\* back for the second one cannot be used: it is about to be marked failed
C12_Witness ==
    /\ b_run = "first" /\ b_pc = "a_got" /\ b_i = 2
    /\ Resolved(b_failed, b_cache, 1)
    /\ ~GoodPage(b_resp)
    /\ ENABLED A_Page


\* the step issues a network operation for the current slug
Navigates == b_pc = "a_loop" /\ b_pc' = "a_got"
Generates == b_pc = "b_loop" /\ b_pc' = "b_got"
Downloads == b_pc = "b_got" /\ b_resp.kind = "url"

\* C13: FAILED is absorbing.  A slug that is in failed_slugs stays in it, in
\* this run and in the run that follows; no step navigates to it, requests
\* its generation or downloads it; and every failed list written afterwards
\* holds it.
C13_FailedIsAbsorbing ==
    /\ [][\A s \in b_failed : s \in b_failed']_vars
    /\ [][(Navigates \/ Generates \/ Downloads) => slug \notin b_failed]_vars
    /\ [][f_failed' # f_failed => b_failed \subseteq f_failed']_vars


\* the slug is RESOLVED and waits for its PDF: not failed, an articleId
\* stored, no pdf_tracker entry for that articleId
AwaitsPdf(failed, cache, tracker, s) ==
    Resolved(failed, cache, s) /\ tracker[cache[s]] = 0

\* C14: a Step B iteration whose generation or download fails leaves
\* failed_slugs and slug_cache as they were and leaves no pdf_tracker entry
\* for the slug's articleId; the slug then stays RESOLVED without a tracker
\* entry until its own download succeeds, in this run and the next; and when
\* Step B reaches a slug in that state it attempts the generation.
C14_GenerationFailureKeepsResolved ==
    /\ [][((B_NoUrl \/ B_DownloadFails) /\ SameRun) =>
            /\ b_failed' = b_failed /\ b_cache' = b_cache
            /\ AwaitsPdf(b_failed', b_cache', b_tracker', slug)]_vars
    /\ [][\A s \in Slugs :
            (AwaitsPdf(b_failed, b_cache, b_tracker, s) /\ ~(Downloads /\ slug = s))
                => AwaitsPdf(b_failed', b_cache', b_tracker', s)]_vars
    /\ [][(InStepB /\ AwaitsPdf(b_failed, b_cache, b_tracker, slug) /\ SameRun)
            => Generates]_vars


\* Step B stands at a slug that is not failed and has an articleId
AtResolvedSlug == InStepB /\ slug \notin b_failed /\ art_id # None

\* C15: when Step B stands at a resolved slug whose articleId has a
\* pdf_tracker entry but the recorded file does not exist, the step removes
\* the entry and attempts the generation in this run; a resolved slug is
\* passed over without an attempt only when the recorded file exists; and a
\* download that succeeds records the slug's own file, which then exists.
C15_MissingFileIsFetchedAgain ==
    /\ [][(AtResolvedSlug /\ pdf_path # 0 /\ ~has_pdf(pdf_path) /\ SameRun) =>
            /\ Generates
            /\ b_tracker' = [b_tracker EXCEPT ![art_id] = 0]
            /\ b_i' = b_i]_vars
    /\ [][(AtResolvedSlug /\ SameRun /\ ~Generates) =>
            /\ has_pdf(pdf_path)
            /\ b_i' = b_i + 1 /\ b_tracker' = b_tracker /\ b_files' = b_files]_vars
    /\ [][(B_Download /\ SameRun) =>
            /\ b_tracker'[art_id] = slug
            /\ b_files'[slug] # "absent"]_vars

\* C15 witness: the second run found a recorded file missing, dropped the
\* entry that pdf_tracker.json still holds, and got a URL for a new download
C15_Witness ==
    /\ b_run = "second" /\ b_pc = "b_got" /\ b_resp.kind = "url"
    /\ f_tracker[art_id] # 0 /\ b_files[f_tracker[art_id]] = "absent"
    /\ b_tracker[art_id] = 0


\* C16: between two slugs the JSON files hold what the script holds in
\* memory, and a run that is stopped anywhere and started again sees no slug
\* as UNKNOWN that had been resolved, downloaded or failed before.
C16_TransitionsSurviveRestart ==
    /\ [](b_pc \in {"a_loop", "b_loop", "merge_loop"} =>
            f_failed = b_failed /\ f_cache = b_cache /\ f_tracker = b_tracker)
    /\ [][b_run' # b_run =>
            \A s \in Slugs : ~Unknown(b_failed, b_cache, s)
                                => ~Unknown(b_failed', b_cache', s)]_vars


\* the slug has an articleId in slug_cache and the file that pdf_tracker
\* records for that articleId exists
Completed(s) ==
    /\ b_cache[s] # None
    /\ b_tracker[b_cache[s]] # 0
    /\ b_files[b_tracker[b_cache[s]]] # "absent"

\* C17: a slug that is resolved and whose tracked PDF exists stays so during
\* the run, with its slug_cache and pdf_tracker entries unchanged; no step
\* navigates to it, requests its generation (polling included) or downloads
\* it; and while every slug is in that state no network operation is
\* possible in Steps A and B.
C17_CompletedSlugsAreSkipped ==
    /\ [][SameRun =>
            \A s \in Slugs : Completed(s) =>
                /\ b_cache'[s] = b_cache[s]
                /\ b_tracker'[b_cache[s]] = b_tracker[b_cache[s]]
                /\ b_files'[b_tracker[b_cache[s]]] = b_files[b_tracker[b_cache[s]]]]_vars
    /\ [][(Navigates \/ Generates \/ Downloads) => ~Completed(slug)]_vars
    /\ []((b_run \in {"first", "second"} /\ \A s \in Slugs : Completed(s)) =>
            /\ b_pc \in {"a_loop", "b_loop", "merge_loop"}
            /\ ~ENABLED (A_Navigate \/ B_Generate))

\* C17 witness: the second run started from the files of a run that resolved
\* and downloaded every slug, and is passing over the slugs in Step A
C17_Witness ==
    /\ b_run = "second" /\ b_pc = "a_loop" /\ b_i = 2
    /\ \A s \in Slugs : Completed(s)


-----------------------------------------------------------------------------
(* Order of the merged document (Step C).                                  *)

\* the slug's PDF is present and can be appended
Mergeable(s) ==
    /\ s \notin b_failed /\ b_cache[s] # None
    /\ has_pdf(b_tracker[b_cache[s]])
    /\ b_files[b_tracker[b_cache[s]]] \in {"empty", "good"}

\* the pages of the mergeable slugs among the first n of ARTICLE_SLUGS, in
\* the order of ARTICLE_SLUGS
RECURSIVE InSlugOrder(_)
InSlugOrder(n) ==
    IF n = 0 THEN <<>>
    ELSE InSlugOrder(n - 1) \o
         (IF Mergeable(ARTICLE_SLUGS[n])
          THEN reader_pages(ARTICLE_SLUGS[n], b_tracker[b_cache[ARTICLE_SLUGS[n]]],
                            b_files[b_tracker[b_cache[ARTICLE_SLUGS[n]]]])
          ELSE <<>>)

\* C18: whatever slug_cache, pdf_tracker, failed_slugs and the files on disk
\* are when Step C starts, the merger holds, after the first n slugs, the
\* PDFs of the mergeable ones among them in the order of ARTICLE_SLUGS, and
\* the written document is the merger after the last slug.
C18_MergedInSlugOrder ==
    /\ b_pc = "merge_loop" => b_merger = InSlugOrder(b_i - 1)
    /\ b_pc \in {"write", "summary", "finished"} => b_merger = InSlugOrder(MaxSlugs)
    /\ b_final.written => b_final.pages = InSlugOrder(MaxSlugs)
    /\ \A i, j \in 1..Len(b_merger) : i < j => b_merger[i].slug < b_merger[j].slug

\* C18 witness: the merged document was written with the PDFs of two slugs,
\* the file of the earlier slug being the one named after the later slug
C18_Witness ==
    /\ b_pc = "finished" /\ b_final.written /\ Len(b_final.pages) >= 2
    /\ b_final.pages[1].slug < b_final.pages[2].slug
    /\ b_final.pages[1].file > b_final.pages[2].file


-----------------------------------------------------------------------------
(* The loop over URLS_IN_ORDER of the nginx converter.                     *)

NginxItemDone == script = "nginx" /\ page_count' = page_count + 1

\* C24: for each URL of the nginx converter, a file that exists is kept
\* without any conversion; otherwise from_url comes first and the fallback
\* only after from_url failed; the path is appended exactly when the file
\* existed or one of the two conversions succeeded; a URL for which both
\* fail is left out and the loop goes on to the next URL and to the merge;
\* downloaded_pdfs is in the order of URLS_IN_ORDER.
C24_NginxPathKeptIffFileOrConversion ==
    /\ [][(script = "nginx" /\ pc = "n_loop" /\ page_count <= MaxParts
           /\ disk[page_count] # "absent") =>
            /\ disk' = disk /\ pc' = "n_loop"
            /\ pdf_files' = Append(pdf_files, page_count)
            /\ page_count' = page_count + 1]_vars
    /\ [][(script = "nginx" /\ pc' = "n_fallback") =>
            /\ pc = "n_loop" /\ disk[page_count] = "absent"
            /\ pdf_files' = pdf_files /\ page_count' = page_count]_vars
    /\ [][NginxItemDone =>
            /\ (N_AlreadyExists \/ N_FromUrlOk \/ N_FallbackOk)
                   <=> pdf_files' = Append(pdf_files, page_count)
            /\ N_FallbackFails <=> pdf_files' = pdf_files
            /\ pc' = "n_loop"]_vars
    /\ [](script = "nginx" =>
            /\ \A i, j \in 1..Len(pdf_files) : i < j => pdf_files[i] < pdf_files[j]
            /\ \A i \in 1..Len(pdf_files) : pdf_files[i] < page_count
            /\ pc = "n_loop" => ENABLED (N_AlreadyExists \/ N_FromUrlOk \/ N_FromUrlFails \/ N_Merge)
            /\ pc = "n_fallback" => ENABLED (N_FallbackOk \/ N_FallbackFails)
            /\ ~raised)

\* C24 witness: the first URL was kept because its file existed, both
\* conversions of the second failed, and the merge has run
C24_Witness ==
    /\ script = "nginx" /\ pc = "done" /\ pdf_files = <<1>>
    /\ disk[2] = "bad"


-----------------------------------------------------------------------------
(* Counting and naming of the per-page PDFs of the Apache crawler.         *)

Rendered == { i \in 1..Len(trace) : trace[i].render = "ok" }

\* C28 (as claimed): page_count and the length of pdf_files both equal the
\* number of visited pages whose rendering succeeded; a page whose
\* html_to_pdf call failed is not counted.
C28_CountsSuccessfulRenderings ==
    script = "apache" =>
        /\ page_count = Cardinality(Rendered)
        /\ Len(pdf_files) = Cardinality(Rendered)


\* C27 (as claimed): the list of PDF paths handed to the merger never holds
\* the same path twice: two distinct visited URLs are written to distinct
\* PDF files.
C27_DistinctPdfPaths ==
    script = "apache" =>
        /\ \A i, j \in 1..Len(pdf_files) : i # j => pdf_files[i] # pdf_files[j]
        /\ \A i, j \in 1..Len(trace) :
               trace[i].url # trace[j].url => PdfName[trace[i].url] # PdfName[trace[j].url]


-----------------------------------------------------------------------------
(* The three groups of the final summary (Step C).                         *)

NoDuplicates(q) == \A i, j \in 1..Len(q) : i # j => q[i] # q[j]
Group(s) ==
    { g \in {"appended", "missing", "merge_failed"} :
        \/ g = "appended" /\ Mergeable(s)
        \/ g = "missing" /\ InSeq(s, b_missing)
        \/ g = "merge_failed" /\ InSeq(s, b_merge_failed) }

\* C29: every slug Step C has passed is in exactly one of three groups:
\* its PDF was appended to the merger, it is listed in missing_slugs (failed,
\* no articleId, or no file), or it is listed in merge_failed_slugs (the file
\* could not be read); no list names a slug twice; and the "all PDFs present
\* and merged" message is printed only when every slug was appended.
C29_ThreeGroups ==
    /\ \A s \in 1..MaxSlugs :
          (b_pc \in {"write", "summary", "finished"} \/ (b_pc = "merge_loop" /\ s < b_i)) =>
              /\ Cardinality(Group(s)) = 1
              /\ InSeq(s, b_missing) <=>
                    (s \in b_failed \/ b_cache[s] = None \/ ~has_pdf(b_tracker[b_cache[s]]))
              /\ (Mergeable(s) /\ b_files[b_tracker[b_cache[s]]] = "good") =>
                    Cardinality({ k \in 1..Len(b_merger) : b_merger[k].slug = s }) = 1
    /\ NoDuplicates(b_missing) /\ NoDuplicates(b_merge_failed)
    /\ b_summary = "all_merged" =>
          /\ b_pc = "finished"
          /\ \A s \in 1..MaxSlugs : Mergeable(s)
          /\ b_missing = <<>> /\ b_merge_failed = <<>>

\* C29 witness: Step C ended with the first slug appended and the second in
\* merge_failed_slugs, and the summary lists it
C29_Witness ==
    /\ b_pc = "finished" /\ Mergeable(1) /\ b_merge_failed = <<2>>
    /\ b_missing = <<>> /\ b_summary = "some_missing"


-----------------------------------------------------------------------------
(* One file per slug (Steps B and C).                                      *)

\* C30 (as claimed): Step B passes over a resolved slug without a generation
\* only when the slug's own file is recorded and exists, and two slugs that
\* are ready to be merged never share a file, so the merged document never
\* holds the same file twice.
C30_OwnFilePerSlug ==
    /\ [][(AtResolvedSlug /\ SameRun /\ ~Generates) => pdf_path = slug]_vars
    /\ [](b_run \in {"first", "second"} =>
            \A s, t \in Slugs :
                (s # t /\ Completed(s) /\ Completed(t)) =>
                    b_tracker[b_cache[s]] # b_tracker[b_cache[t]])

(***************************************************************************)
(* poll_task_status of the bind9 script                                    *)
(***************************************************************************)
\* the default of the max_tries parameter is 30; the model polls fewer times
max_tries == 3

\* the JSON document of a status response: whether it has a "taskStatus"
\* object, that object's isComplete, and the url item of its result
PollData == [has_status : BOOLEAN, isComplete : BOOLEAN, url : 0..1]
\* {}
EmptyData == [has_status |-> FALSE, isComplete |-> FALSE, url |-> 0]

\* st = data.get("taskStatus", {});  st.get("isComplete")
is_complete(data) == data.has_status /\ data.isComplete

\* what one attempt receives
PollResponses ==
    {[kind |-> k, data |-> EmptyData] : k \in {"not_ok", "exception"}}
        \cup {[kind |-> "json", data |-> d] : d \in PollData}

\* for attempt in range(1, max_tries + 1)
tries_left_more(a) == a <= max_tries
tries_left(a) == a < max_tries

Returned(d) == [kind |-> "returned", data |-> d]

InitPoll ==
    /\ attempt = 0 /\ ret = NoRet /\ polled = <<>>
    /\ IdleCrawl /\ IdleFilter /\ IdleClean /\ IdleBind

\* session.get answers with a non-success status: continue
P_NotOk ==
    /\ ret = NoRet /\ tries_left(attempt)
    /\ attempt' = attempt + 1
    /\ polled' = Append(polled, [kind |-> "not_ok", data |-> EmptyData])
    /\ UNCHANGED <<ret, crawlVars, filterVars, cleanVars, bindVars, runVars>>

\* session.get, r.json() or the reading of the document raises: the except
\* clause prints and the loop goes on
P_Exception ==
    /\ ret = NoRet /\ tries_left(attempt)
    /\ attempt' = attempt + 1
    /\ polled' = Append(polled, [kind |-> "exception", data |-> EmptyData])
    /\ UNCHANGED <<ret, crawlVars, filterVars, cleanVars, bindVars, runVars>>

\* the document does not report completion
P_Incomplete ==
    /\ ret = NoRet /\ tries_left(attempt)
    /\ \E d \in PollData :
          /\ ~is_complete(d)
          /\ polled' = Append(polled, [kind |-> "json", data |-> d])
    /\ attempt' = attempt + 1
    /\ UNCHANGED <<ret, crawlVars, filterVars, cleanVars, bindVars, runVars>>

\* the document reports completion: return data
P_Complete ==
    /\ ret = NoRet /\ tries_left(attempt)
    /\ \E d \in PollData :
          /\ is_complete(d)
          /\ polled' = Append(polled, [kind |-> "json", data |-> d])
          /\ ret' = Returned(d)
    /\ attempt' = attempt + 1
    /\ UNCHANGED <<crawlVars, filterVars, cleanVars, bindVars, runVars>>

\* the range is exhausted: return {}
P_GaveUp ==
    /\ ret = NoRet /\ ~tries_left(attempt)
    /\ ret' = Returned(EmptyData)
    /\ UNCHANGED <<attempt, polled, crawlVars, filterVars, cleanVars, bindVars, runVars>>

NextPoll == P_NotOk \/ P_Exception \/ P_Incomplete \/ P_Complete \/ P_GaveUp

SpecPoll == InitPoll /\ [][NextPoll]_vars
\* the interpreter runs the loop: a step that can be taken is taken
FairSpecPoll == SpecPoll /\ WF_vars(NextPoll)

\* the attempt reported completion
ReportsComplete(r) == r.kind = "json" /\ r.data.has_status /\ r.data.isComplete

\* C25: poll_task_status terminates after at most max_tries status requests;
\* it returns the response of the first attempt that reports isComplete and
\* requests nothing after it; it returns {} when no attempt reports
\* completion; an attempt that ends with a non-success status or an exception
\* is used up and the polling goes on with the next one.
C25_PollingIsBounded ==
    /\ <>(ret # NoRet)
    /\ [](Len(polled) = attempt /\ attempt <= max_tries)
    /\ [][ret # NoRet => polled' = polled]_vars
    /\ [](ret # NoRet =>
            \/ /\ polled # <<>> /\ ReportsComplete(polled[Len(polled)])
               /\ ret = Returned(polled[Len(polled)].data)
               /\ \A i \in 1..(Len(polled) - 1) : ~ReportsComplete(polled[i])
            \/ /\ ret = Returned(EmptyData)
               /\ Len(polled) = max_tries
               /\ \A i \in 1..Len(polled) : ~ReportsComplete(polled[i]))
    /\ [][(ret = NoRet /\ Len(polled) < max_tries /\ Len(polled') > Len(polled)
            /\ polled'[Len(polled')].kind \in {"not_ok", "exception"})
          => ret' = NoRet /\ attempt' = attempt + 1]_vars

\* a failed first attempt, an exception on the second, completion on the third
C25_Witness ==
    /\ Len(polled) = 3
    /\ polled[1].kind = "not_ok" /\ polled[2].kind = "exception"
    /\ ret = Returned([has_status |-> TRUE, isComplete |-> TRUE, url |-> 1])

(***************************************************************************)
(* The retry loops of the Debian 12 converters                             *)
(***************************************************************************)
\* the retry loop of the current link returns in this step
LinkDone(s) == script = s /\ pc = "d_parts" /\ Len(trace') = Len(trace) + 1

\* C26: fetch_page of the Debian 12 v2 converter makes at most MAX_RETRIES
\* navigation attempts for a URL; it returns True at the first attempt that
\* does not time out, and nothing is attempted for that URL afterwards; it
\* returns False exactly when all MAX_RETRIES attempts timed out; on False the
\* caller writes no PDF for that link, adds nothing to all_pdfs and leaves
\* link_counter as it is.
C26_FetchPageRetries ==
    /\ [](script = "debian12v2" => attempt < MAX_RETRIES(script))
    /\ [][LinkDone("debian12v2") =>
            /\ ret'.attempts = attempt + 1 /\ ret'.attempts <= MAX_RETRIES(script)
            /\ attempt' = 0 /\ to_visit' = Tail(to_visit)
            /\ ret'.data <=> Last(trace').fetch = "ok"
            /\ ~ret'.data <=> (ret'.attempts = MAX_RETRIES(script)
                                 /\ Last(trace').fetch = "timeout")
            /\ ~ret'.data =>
                  disk' = disk /\ pdf_files' = pdf_files /\ page_count' = page_count]_vars

\* both attempts for the first link timed out: nothing written, link_counter
\* still 2, the second link is next
C26_Witness ==
    /\ script = "debian12v2" /\ pc = "d_parts"
    /\ ret = Fetched(FALSE, 2)
    /\ to_visit = <<2>> /\ pdf_files = <<1>> /\ page_count = 2
    /\ disk[2] = "absent"

\* the links handled so far are the first links of the navigation, in order
HandledInOrder(first) ==
    \A i \in first..Len(trace) : trace[i].url = i - first + 1

\* C21: in the Debian 12 v2 converter a timeout of the navigation to the start
\* page ends main before any link is gathered: no PDF is written and nothing is
\* merged.  A sub-page whose MAX_RETRIES attempts all time out is skipped, the
\* loop goes on with the remaining links, and the run ends with the merge of
\* the PDFs that were written.
C21_OnlyStartPageTimeoutIsFatal ==
    /\ [][(script = "debian12v2" /\ pc = "d_main" /\ Last(trace').fetch = "timeout") =>
            /\ pc' = "exited_early"
            /\ to_visit' = <<>> /\ pdf_files' = <<>> /\ disk' = disk]_vars
    /\ [](pc = "exited_early" =>
            /\ merged = NoFile /\ \A f \in DOMAIN disk : disk[f] = "absent"
            /\ ~ENABLED Next)
    /\ [][(LinkDone("debian12v2") /\ ~ret'.data) =>
            /\ ret'.attempts = MAX_RETRIES(script)
            /\ pc' = "d_parts" /\ ~raised' /\ to_visit' = Tail(to_visit)]_vars
    /\ (script = "debian12v2" /\ pc = "d_parts") ~>
            (script = "debian12v2" /\ pc = "done" /\ to_visit = <<>> /\ HandledInOrder(2)
               /\ merged = merge_pdfs(pdf_files, disk))

\* the first link was skipped after its timeouts, the second one was saved,
\* and the index and the second link's PDF were merged
C21_Witness ==
    /\ script = "debian12v2" /\ pc = "done"
    /\ Len(trace) = 3 /\ trace[2].fetch = "timeout" /\ trace[3].fetch = "ok"
    /\ pdf_files = <<1, 2>> /\ merged.written /\ Len(merged.pages) = 2

\* C22: the Debian 12 v1 converter skips no page because of load timeouts:
\* for every topic link, load_page_with_retries makes at most MAX_RETRIES (4)
\* attempts, and whether it returns True or False exactly one PDF is written
\* for the link and its path is appended to pdf_paths, in navigation order.
C22_NoPageSkipped ==
    /\ [](script = "debian12" => attempt < MAX_RETRIES(script))
    /\ [][LinkDone("debian12") =>
            /\ ret'.attempts = attempt + 1 /\ ret'.attempts <= 4
            /\ Last(trace').url = Head(to_visit)
            /\ pdf_files' = Append(pdf_files, page_count)
            /\ disk[page_count] = "absent" /\ disk'[page_count] # "absent"
            /\ \A f \in DOMAIN disk : f # page_count => disk'[f] = disk[f]]_vars
    /\ [](script = "debian12" /\ pc \in {"merge", "done", "aborted_merge"} =>
            /\ to_visit = <<>> /\ HandledInOrder(1)
            /\ pdf_files = [i \in 1..(Len(trace) + 1) |-> i - 1])

\* all four attempts for the first link timed out and its PDF was written
C22_Witness ==
    /\ script = "debian12"
    /\ ret = Fetched(FALSE, 4)
    /\ Len(trace) = 1 /\ pdf_files = <<0, 1>> /\ disk[1] # "absent"

(***************************************************************************)
(* The rewritten links of the rspamd crawler                               *)
(***************************************************************************)
\* C23: in the rspamd crawler, for every URL that is_valid_link accepts and
\* that main() renders, the href that rewrite_links writes for links to that
\* URL is the PDF file name under which main() saves the page.
C23_RewrittenLinkIsPdfName ==
    script = "rspamd" =>
        \A i \in 1..Len(trace) :
            (trace[i].render = "ok" /\ is_valid_link("rspamd", trace[i].url)) =>
                rewrite_links(trace[i].url) = PdfName[trace[i].url]

====
